---- MODULE Spec2Model ----
(***************************************************************************)
(* The loglow configuration engine (src/src/lib/config.ts, final revision  *)
(* starting at line 999) together with its locking authority               *)
(* (src/libraries/core/dist/lib/locking.js).                               *)
(*                                                                         *)
(* Logger names are strings, modelled as sequences of one-character        *)
(* strings, so that splitting on "/" and joining with "/" are computed.    *)
(***************************************************************************)
EXTENDS Integers, Sequences, FiniteSets, TLC

(* Number of lock tokens (Symbols) that may be minted in one behaviour. *)
MaxKeys == 2

(* ------------------------------------------------------------------ *)
(* State                                                                *)
(* ------------------------------------------------------------------ *)
VARIABLES
    currentKey,            \* locking.js: let currentKey
    handles,               \* the Lock objects lock() has returned so far
    configurators,         \* Map from logger name or ROOT to configurator
    implementationMap,     \* Map from logger name to Implementation
    knownImplementations,  \* presence tree: node path -> present flag
    defaultLists,          \* contents of defaultConfig's two arrays
    received,              \* the entries the recording receivers were given
    pending,               \* futures returned by a receiver and not settled
    globalSlot,            \* index.js: the value of globalContent[MAGIC]
    clientImpl,            \* client wrapper: let impl
    call,                  \* the call made by the last step
    ret                    \* what that call returned or delivered

vars == <<currentKey, handles, configurators, implementationMap,
          knownImplementations, defaultLists, received, pending,
          globalSlot, clientImpl, call, ret>>

configVars == <<configurators, implementationMap, knownImplementations>>

(* What only a log call, or the settling of a future, changes. *)
deliveryVars == <<defaultLists, received, pending>>

(* The state of the legacy engine and of the client wrapper. *)
packageVars == <<globalSlot, clientImpl>>

(* ------------------------------------------------------------------ *)
(* Names                                                                *)
(* ------------------------------------------------------------------ *)
Slash == "/"

NameA == <<"a">>
NameAB == <<"a", "/", "b">>
NameAC == <<"a", "/", "c">>
NameAb == <<"a", "b">>

(* The logger names used as inputs of log and setConfigurator. *)
Names == {NameA, NameAB, NameAC, NameAb}

(* const ROOT = Symbol("root"): a key no string is equal to. *)
ROOT == <<"Symbol(root)">>

LOGGER_NAME == <<"@loglow">>

RECURSIVE Join(_)
(* parts.join("/") *)
Join(parts) ==
    IF Len(parts) = 0 THEN <<>>
    ELSE IF Len(parts) = 1 THEN parts[1]
    ELSE parts[1] \o <<Slash>> \o Join(Tail(parts))

buildLoggerName(parts) == Join(parts)

EXTERNAL_LOGGER_NAME == buildLoggerName(<<LOGGER_NAME, <<"external">>>>)

EXTERNAL_ERROR_LOGGER_NAME ==
    buildLoggerName(<<EXTERNAL_LOGGER_NAME, <<"errors">>>>)

RECURSIVE SplitFrom(_, _, _)
(* Scan s from position i; cur is the component collected so far. *)
SplitFrom(s, i, cur) ==
    IF i > Len(s) THEN <<cur>>
    ELSE IF s[i] = Slash THEN <<cur>> \o SplitFrom(s, i + 1, <<>>)
    ELSE SplitFrom(s, i + 1, Append(cur, s[i]))

(* loggerName.split("/") *)
splitLoggerName(loggerName) == SplitFrom(loggerName, 1, <<>>)

RECURSIVE ConfigPathsLoop(_, _, _, _)
(* The for loop of getConfigPaths: paths[i + 1] = parent + "/" + components[i] *)
ConfigPathsLoop(components, i, parent, paths) ==
    IF i > Len(components) THEN paths
    ELSE LET newPath == buildLoggerName(<<parent, components[i]>>)
         IN  ConfigPathsLoop(components, i + 1, newPath, Append(paths, newPath))

(* getConfigPaths that takes every leading substring for a path. *)
getConfigPathsSubstrings(loggerName) ==
    [i \in 1..Len(loggerName) |-> SubSeq(loggerName, 1, i)]

getConfigPaths(loggerName) ==
    LET parts == splitLoggerName(loggerName)
        firstComponent == Head(parts)
        components == Tail(parts)
    IN  ConfigPathsLoop(components, 1, firstComponent, <<firstComponent>>)

(* ------------------------------------------------------------------ *)
(* Configurations and configurators                                     *)
(* ------------------------------------------------------------------ *)
NOOP == "NOOP"

(* The list properties of a configuration. *)
ListProps == {"decorations", "middleware"}

(* Map.set(key, value) and Map.delete(key) *)
MapSet(map, key, value) ==
    [k \in DOMAIN map \cup {key} |-> IF k = key THEN value ELSE map[k]]

MapDelete(map, key) == [k \in DOMAIN map \ {key} |-> map[k]]

Numerals == <<"1", "2", "3", "4", "5", "6", "7", "8", "9">>

(* An array object a caller built: a label for its identity, two arrays
   with one label and one initial contents being the same object, and the
   elements it was built with. *)
ArrayObject(id, items) == [isNone |-> FALSE, id |-> id, items |-> items]

(* No array object. *)
NoHolder == [isNone |-> TRUE, id |-> "", items |-> <<>>]

(* hasEnabled: whether "enabled" is an own property of the object.
   aliased: the list properties whose value is the very array object held by
   defaultConfig; the copy {...defaultConfig} is shallow, so it starts with
   both.  holder: the array object a configurator stored in the
   configuration as the value of middleware, NoHolder when none did. *)
defaultConfig ==
    [hasEnabled |-> TRUE, enabled |-> FALSE, decorations |-> <<>>,
     middleware |-> <<>>, receiver |-> NOOP, aliased |-> ListProps,
     holder |-> NoHolder]

(* The contents of the two arrays of defaultConfig when the module loads.
   held has the contents of the array objects configurators were built
   with, by array object, once something was pushed onto them. *)
initialLists ==
    [decorations |-> <<>>, middleware |-> <<>>, held |-> [k \in {} |-> <<>>]]

(* The present contents of an array object: the elements it was built
   with, unless something was pushed onto it. *)
HeldArray(lists, array) ==
    IF array \in DOMAIN lists.held THEN lists.held[array] ELSE array.items

(* { ...defaultConfig } while the arrays of defaultConfig hold lists. *)
copyDefaultConfig(lists) ==
    [defaultConfig EXCEPT !.decorations = lists.decorations,
                          !.middleware = lists.middleware]

(* The metadata values used as decorations. *)
Tags == {"t1", "t2"}

(* A metadata value that is a plain record. *)
PlainMeta(v) == [value |-> v]

(* A user configurator that appends one decoration to a copy of the list:
   cfg => ({...cfg, decorations: [...cfg.decorations, tag]}). *)
Decorate(t) == [kind |-> "decorate", tag |-> t, wrapped |-> FALSE]

(* compose(propertySetter("enabled", true), propertySetter("receiver", spy),
   Decorate(tag)) *)
Configure(t) == [kind |-> "configure", tag |-> t, wrapped |-> FALSE]

(* propertyDeleter("enabled") *)
DeleteEnabled == [kind |-> "delete", tag |-> "none", wrapped |-> FALSE]

(* compose(propertySetter("enabled", true), propertySetter("receiver", r)) *)
Enable(r) ==
    [kind |-> "enable", tag |-> "none", wrapped |-> FALSE, receiver |-> r]

(* compose(propertySetter("enabled", true), propertySetter("receiver", r),
   propertySetter("middleware", array)): the closure keeps the array object
   itself, labelled id.  Configurators built apart from each other, each
   with an array of its own, are written with different labels. *)
PipelineOn(r, id, mws) ==
    [kind |-> "pipeline", tag |-> "none", wrapped |-> FALSE, receiver |-> r,
     middleware |-> mws, array |-> id]

(* propertyAppender("decorations", tag) *)
Appender(t) == [kind |-> "append", tag |-> t, wrapped |-> FALSE]

(* compose(propertySetter("enabled", true), propertySetter("receiver", r),
   propertyAppender("decorations", tag)) *)
EnableAppender(r, t) ==
    [kind |-> "enableAppend", tag |-> t, wrapped |-> FALSE, receiver |-> r]

(* The function config-util's addDecorator appends to the middleware list:
   ({ metas }) => { metas.push(...decoratorMetas); }.  Called as a
   middleware its first argument is the logger name, a string, so metas is
   undefined and metas.push throws a TypeError before next is reached. *)
DecoratorFunction(t) ==
    [id |-> "decorator", emits |-> <<>>, throws |-> TRUE, tag |-> t]

(* config-util addDecorator(tag): propertyAppender("middleware", fn) *)
addDecorator(t) == [kind |-> "addDecorator", tag |-> t, wrapped |-> FALSE]

(* compose(propertySetter("enabled", true), propertySetter("receiver", r),
   addDecorator(tag)) *)
EnableDecorated(r, t) ==
    [kind |-> "enableDecorated", tag |-> t, wrapped |-> FALSE, receiver |-> r]

(* The absence of a thrown value. *)
NoError == [kind |-> "none", message |-> "", own |-> {}, stack |-> <<>>]

(* An Error object a configurator throws: its message, its own enumerable
   properties as name/value pairs, and the lines of its stack. *)
TestError ==
    [kind |-> "Error", message |-> "test configurator error",
     own |-> {<<"name", "TestError">>, <<"foo", "bar">>},
     stack |-> <<"TestError: test configurator error", "at configurator">>]

(* A thrown value that is not an object with a stack string. *)
ThrownString ==
    [kind |-> "string", message |-> "", own |-> {<<"value", "failure">>},
     stack |-> <<>>]

(* An Error object whose stack is its header alone. *)
BareError ==
    [kind |-> "Error", message |-> "bare", own |-> {},
     stack |-> <<"Error: bare">>]

(* The thrown values null and undefined. *)
ThrownNull == [kind |-> "null", message |-> "", own |-> {}, stack |-> <<>>]

ThrownUndefined ==
    [kind |-> "undefined", message |-> "", own |-> {}, stack |-> <<>>]

(* A user configurator that throws e: () => { throw e; } *)
Throwing(e) ==
    [kind |-> "throw", tag |-> "none", wrapped |-> FALSE, error |-> e]

(* The value null passed in place of a configurator. *)
NullConfigurator == [kind |-> "null", tag |-> "none", wrapped |-> FALSE]

DEFAULT_ROOT_CONFIGURATOR == [kind |-> "identity", tag |-> "none", wrapped |-> TRUE]

(* The configurators callers pass to setConfigurator. *)
UserConfigurators == {Configure(t) : t \in Tags}

(* The configurators callers pass to setRootConfigurator. *)
RootConfigurators == UserConfigurators \cup {NullConfigurator}

wrapConfigurator(configurator) ==
    IF configurator = NullConfigurator THEN NullConfigurator
    ELSE [configurator EXCEPT !.wrapped = TRUE]

propertySetterEnabled(cfg, value) ==
    [cfg EXCEPT !.hasEnabled = TRUE, !.enabled = value]

propertySetterReceiver(cfg, value) == [cfg EXCEPT !.receiver = value]

(* delete cfg.enabled: reading the property then gives undefined, which
   Boolean() turns into false. *)
propertyDeleterEnabled(cfg) ==
    [cfg EXCEPT !.hasEnabled = FALSE, !.enabled = FALSE]

(* cfg.middleware = value: the property now holds the array object the
   configurator was built with, whose present contents are contents. *)
propertySetterMiddleware(cfg, value, contents) ==
    [cfg EXCEPT !.middleware = contents, !.aliased = @ \ {"middleware"},
                !.holder = value]

(* cfg.decorations = cfg.decorations || []; cfg.decorations.push(value):
   the array the property holds is extended in place. *)
propertyAppenderDecorations(cfg, value) ==
    [cfg EXCEPT !.decorations = Append(@, value)]

(* cfg.middleware = cfg.middleware || []; cfg.middleware.push(value) *)
propertyAppenderMiddleware(cfg, value) ==
    [cfg EXCEPT !.middleware = Append(@, value)]

(* A new array [...cfg.decorations, value] is stored in the configuration. *)
spreadDecorations(cfg, value) ==
    [cfg EXCEPT !.decorations = Append(@, value),
                !.aliased = @ \ {"decorations"}]

(* The stack lines below the header of the error captured when the
   configurator was wrapped. *)
SourceStack == <<"at caller of setConfigurator">>

(* Object.create(error, descriptors): the message is inherited from the
   prototype, every enumerable property is an own getter for the value of
   the original, and stack is an own property holding the given value. *)
overrideStack(error, stack) ==
    [kind |-> error.kind, message |-> error.message,
     own |-> {<<p[1], p[2]>> : p \in error.own}, stack |-> stack]

(* A text is the sequence of its lines, the empty text being one empty
   line: stack.split(/\n/) gives the header and the lines after it, and
   callStack.join("\n") of no lines is the empty text. *)
splitStack(stack) ==
    <<Head(stack), IF Tail(stack) = <<>> THEN <<"">> ELSE Tail(stack)>>

(* Whether calling the configurator throws. *)
ConfiguratorThrows(c) == c.kind = "throw"

(* The TypeError the read of error.stack raises when error is null or
   undefined. *)
StackTypeError(value) ==
    LET message == IF value.kind = "null"
                   THEN "Cannot read properties of null (reading 'stack')"
                   ELSE "Cannot read properties of undefined (reading 'stack')"
    IN  [kind |-> "Error", message |-> message, own |-> {},
         stack |-> <<"TypeError: " \o message, "at wrapped configurator">>]

(* The catch block of the function wrapConfigurator returns: what leaves
   it for the value the configurator threw.  typeof error.stack is
   evaluated first, and throws for null and undefined. *)
WrappedThrow(c) ==
    IF c.error.kind \in {"null", "undefined"}
    THEN StackTypeError(c.error)
    ELSE IF c.error.kind = "Error"
    THEN LET parts == splitStack(c.error.stack)
         IN  overrideStack(c.error,
                           <<parts[1]>> \o SourceStack \o <<"  called:">>
                           \o parts[2])
    ELSE c.error

(* Calling the (wrapped) configurator on a configuration, when it
   returns. *)
ApplyConfigurator(c, cfg, lists) ==
    CASE c.kind = "decorate" -> spreadDecorations(cfg, PlainMeta(c.tag))
      [] c.kind = "configure" ->
             LET enabled == propertySetterEnabled(cfg, TRUE)
                 withReceiver == propertySetterReceiver(enabled, "spy")
             IN  spreadDecorations(withReceiver, PlainMeta(c.tag))
      [] c.kind = "delete" -> propertyDeleterEnabled(cfg)
      [] c.kind = "enable" ->
             propertySetterReceiver(propertySetterEnabled(cfg, TRUE),
                                    c.receiver)
      [] c.kind = "pipeline" ->
             propertySetterMiddleware(
                 propertySetterReceiver(propertySetterEnabled(cfg, TRUE),
                                        c.receiver),
                 ArrayObject(c.array, c.middleware),
                 HeldArray(lists, ArrayObject(c.array, c.middleware)))
      [] c.kind = "append" ->
             propertyAppenderDecorations(cfg, PlainMeta(c.tag))
      [] c.kind = "enableAppend" ->
             propertyAppenderDecorations(
                 propertySetterReceiver(propertySetterEnabled(cfg, TRUE),
                                        c.receiver),
                 PlainMeta(c.tag))
      [] c.kind = "addDecorator" ->
             propertyAppenderMiddleware(cfg, DecoratorFunction(c.tag))
      [] c.kind = "enableDecorated" ->
             propertyAppenderMiddleware(
                 propertySetterReceiver(propertySetterEnabled(cfg, TRUE),
                                        c.receiver),
                 DecoratorFunction(c.tag))
      [] OTHER -> cfg

(* The arrays of defaultConfig if the configuration held private copies. *)
ListsAfterPrivate(c, cfg, lists) == lists

(* The contents of the arrays after the configurator was called on cfg:
   push() on an aliased array extends the array of defaultConfig itself,
   and push() on the array a configurator was built with extends that. *)
ListsAfter(c, cfg, lists) ==
    IF c.kind \in {"append", "enableAppend"} /\ "decorations" \in cfg.aliased
    THEN [lists EXCEPT !.decorations = Append(@, PlainMeta(c.tag))]
    ELSE IF c.kind \in {"addDecorator", "enableDecorated"}
            /\ "middleware" \in cfg.aliased
    THEN [lists EXCEPT !.middleware = Append(@, DecoratorFunction(c.tag))]
    ELSE IF c.kind \in {"addDecorator", "enableDecorated"}
            /\ cfg.holder # NoHolder
    THEN [lists EXCEPT !.held =
              MapSet(@, cfg.holder,
                     Append(cfg.middleware, DecoratorFunction(c.tag)))]
    ELSE lists

(* configurators.get(key), with undefined and null both falsy. *)
MapGet(map, key) ==
    IF key \in DOMAIN map THEN map[key] ELSE NullConfigurator

Truthy(c) == c # NullConfigurator

hasOwnEnabled(config) == config.hasEnabled

RECURSIVE LoadPaths(_, _, _, _)
(* The for loop of loadMultipleConfigs.  acc carries the configuration, the
   keys of the configurators applied so far, in application order, the
   contents of the arrays of defaultConfig, and the error that ended the
   loop when a configurator threw. *)
LoadPaths(registry, configPaths, i, acc) ==
    IF i > Len(configPaths) \/ acc.error # NoError THEN acc
    ELSE LET path == configPaths[i]
             configurator == MapGet(registry, path)
         IN  IF Truthy(configurator)
             THEN LET defaulted ==
                          IF ~hasOwnEnabled(acc.config)
                          THEN [acc.config EXCEPT !.hasEnabled = TRUE,
                                                  !.enabled = TRUE]
                          ELSE acc.config
                  IN  IF ConfiguratorThrows(configurator)
                      THEN [acc EXCEPT !.error = WrappedThrow(configurator)]
                      ELSE LoadPaths(registry, configPaths, i + 1,
                                [config |-> ApplyConfigurator(configurator,
                                                defaulted, acc.lists),
                                 applied |-> Append(acc.applied, path),
                                 lists |-> ListsAfter(configurator, defaulted,
                                                      acc.lists),
                                 error |-> NoError])
             ELSE LoadPaths(registry, configPaths, i + 1, acc)

(* loadMultipleConfigs that applies the root configurator after the paths. *)
loadMultipleConfigsRootLast(registry, configPaths) ==
    LET rootConfigurator == MapGet(registry, ROOT)
        loaded == LoadPaths(registry, configPaths, 1,
                            [config |-> copyDefaultConfig(defaultLists),
                             applied |-> <<>>, lists |-> defaultLists,
                             error |-> NoError])
    IN  IF Truthy(rootConfigurator) /\ loaded.error = NoError
        THEN IF ConfiguratorThrows(rootConfigurator)
             THEN [loaded EXCEPT !.error = WrappedThrow(rootConfigurator)]
             ELSE [config |-> ApplyConfigurator(rootConfigurator,
                                                loaded.config, loaded.lists),
                   applied |-> Append(loaded.applied, ROOT),
                   lists |-> ListsAfter(rootConfigurator, loaded.config,
                                        loaded.lists),
                   error |-> NoError]
        ELSE loaded

loadMultipleConfigs(registry, configPaths) ==
    LET rootConfigurator == MapGet(registry, ROOT)
        config == copyDefaultConfig(defaultLists)
        start ==
            IF ~Truthy(rootConfigurator)
            THEN [config |-> config, applied |-> <<>>, lists |-> defaultLists,
                  error |-> NoError]
            ELSE IF ConfiguratorThrows(rootConfigurator)
            THEN [config |-> config, applied |-> <<>>, lists |-> defaultLists,
                  error |-> WrappedThrow(rootConfigurator)]
            ELSE [config |-> ApplyConfigurator(rootConfigurator, config,
                                               defaultLists),
                  applied |-> <<ROOT>>,
                  lists |-> ListsAfter(rootConfigurator, config, defaultLists),
                  error |-> NoError]
    IN  LoadPaths(registry, configPaths, 1, start)

getConfig(registry, loggerName) ==
    loadMultipleConfigs(registry, getConfigPaths(loggerName))

(* null *)
NullKey == 0

(* ------------------------------------------------------------------ *)
(* Locking authority                                                    *)
(* ------------------------------------------------------------------ *)
(* isKey without the comparison with the current key. *)
isKeyAlways(key) == TRUE

(* isKey that accepts only while nothing is locked. *)
isKeyUnlockedOnly(key) == currentKey = NullKey

(* isKey that accepts the outstanding key only. *)
isKeyCurrentOnly(key) == key = currentKey

isKey(key) == key = currentKey \/ currentKey = NullKey

(* Symbol(name): a value different from every key minted before. *)
FreshKey == Cardinality({h \in handles : h.acquired}) + 1

(* lock() that mints a key without looking at currentKey. *)
getKeyAlways == FreshKey

(* locking.js lock(): the key returned, null when one is outstanding. *)
getKey == IF currentKey = NullKey THEN FreshKey ELSE NullKey

(* unlock() without the isKey check. *)
unlockAlways(key) == NullKey

(* locking.js unlock(key): the value of currentKey afterwards. *)
unlock(key) == IF isKey(key) THEN NullKey ELSE currentKey

(* The object without a key whose methods are all NOOP. *)
DummyHandle == [via |-> "handle", acquired |-> FALSE, key |-> NullKey]

KeyHandle(key) == [via |-> "handle", acquired |-> TRUE, key |-> key]

(* A caller of the functions the module exports besides lock: it has no
   handle and no key. *)
Module == [via |-> "module", acquired |-> FALSE, key |-> NullKey]

(* A logger name or a wrapped configurator where a key is expected: a
   value that is no key the lock has minted, and not null. *)
NotAKey == 0 - 1

Callers == {Module} \cup handles

(* A method of the dummy handle is NOOP; any other is bound to a key. *)
Bound(caller) == caller # DummyHandle

(* ------------------------------------------------------------------ *)
(* Presence tree and implementation cache                               *)
(* ------------------------------------------------------------------ *)
emptyTree == (<<>> :> FALSE)

emptyMap == [n \in {} |-> NOOP]

RECURSIVE TreeWalk(_, _, _, _)
(* The for loop of getImplementationTree: follow children.get(component). *)
TreeWalk(tree, components, i, node) ==
    IF i > Len(components) THEN [found |-> TRUE, node |-> node]
    ELSE LET child == Append(node, components[i])
         IN  IF child \in DOMAIN tree
             THEN TreeWalk(tree, components, i + 1, child)
             ELSE [found |-> FALSE, node |-> <<>>]

getImplementationTree(tree, loggerName) ==
    TreeWalk(tree, splitLoggerName(loggerName), 1, <<>>)

(* tree.children.entries() of a node, as [childNode, component] pairs. *)
Children(tree, node) ==
    {p \in DOMAIN tree : Len(p) = Len(node) + 1
                         /\ SubSeq(p, 1, Len(node)) = node}

RECURSIVE SetToSeq(_)
SetToSeq(S) ==
    IF S = {} THEN <<>>
    ELSE LET x == CHOOSE y \in S : TRUE
         IN  <<x>> \o SetToSeq(S \ {x})

RECURSIVE ClearLoop(_, _, _)
(* The while loop of clearImplementations over the queue treesToClear of
   [tree, name] pairs. *)
ClearLoop(treesToClear, map, tree) ==
    IF Len(treesToClear) = 0 THEN [map |-> map, tree |-> tree]
    ELSE LET node == Head(treesToClear).node
             name == Head(treesToClear).name
             present == tree[node]
             map2 == IF present THEN MapDelete(map, name) ELSE map
             tree2 == IF present THEN [tree EXCEPT ![node] = FALSE] ELSE tree
             kids == SetToSeq(Children(tree, node))
             pushed == [i \in 1..Len(kids) |->
                          [node |-> kids[i],
                           name |-> buildLoggerName(
                                        <<name, kids[i][Len(kids[i])]>>)]]
         IN  ClearLoop(Tail(treesToClear) \o pushed, map2, tree2)

(* clearImplementations that handles the named logger only, not the
   loggers beneath it. *)
clearImplementationsExact(map, tree, loggerName) ==
    LET startTree == getImplementationTree(tree, loggerName)
    IN  IF startTree.found /\ tree[startTree.node]
        THEN [map |-> MapDelete(map, loggerName),
              tree |-> [tree EXCEPT ![startTree.node] = FALSE]]
        ELSE [map |-> map, tree |-> tree]

(* clearImplementations that drops every cached implementation. *)
clearImplementationsAll(map, tree, loggerName) ==
    [map |-> [n \in {} |-> NOOP], tree |-> (<<>> :> FALSE)]

clearImplementations(map, tree, loggerName) ==
    LET startTree == getImplementationTree(tree, loggerName)
    IN  IF startTree.found
        THEN ClearLoop(<<[node |-> startTree.node, name |-> loggerName]>>,
                       map, tree)
        ELSE [map |-> map, tree |-> tree]

(* clearAlImplementations that clears the cache and leaves the tree. *)
clearAlImplementationsKeepingTree ==
    [map |-> emptyMap, tree |-> knownImplementations]

clearAlImplementations == [map |-> emptyMap, tree |-> emptyTree]

RECURSIVE EnsureLoop(_, _, _, _)
(* The for loop of ensureImplementationTreeExists. *)
EnsureLoop(tree, components, i, node) ==
    IF i > Len(components) THEN [tree |-> tree, node |-> node]
    ELSE LET child == Append(node, components[i])
         IN  IF child \in DOMAIN tree
             THEN EnsureLoop(tree, components, i + 1, child)
             ELSE EnsureLoop(MapSet(tree, child, FALSE), components, i + 1, child)

ensureImplementationTreeExists(tree, loggerName) ==
    EnsureLoop(tree, splitLoggerName(loggerName), 1, <<>>)

(* ------------------------------------------------------------------ *)
(* Implementations                                                      *)
(* ------------------------------------------------------------------ *)
(* The function NOOP used as the implementation of a disabled logger. *)
NoopImplementation ==
    [noop |-> TRUE, loggerName |-> <<>>, config |-> defaultConfig]

(* buildImplementation that builds the closure for a disabled logger too. *)
buildImplementationIgnoringEnabled(registry, loggerName) ==
    LET loaded == getConfig(registry, loggerName)
    IN  [impl |-> [noop |-> FALSE, loggerName |-> loggerName,
                   config |-> loaded.config],
         applied |-> loaded.applied, lists |-> loaded.lists,
         error |-> loaded.error]

(* buildImplementation: the closure over loggerName and config, the
   configurators getConfig applied to obtain it, the contents of the
   arrays of defaultConfig afterwards, and the error getConfig threw, in
   which case nothing is returned. *)
buildImplementation(registry, loggerName) ==
    LET loaded == getConfig(registry, loggerName)
        enabled == loaded.config.enabled
    IN  [impl |-> IF ~enabled \/ loaded.error # NoError
                  THEN NoopImplementation
                  ELSE [noop |-> FALSE, loggerName |-> loggerName,
                        config |-> loaded.config],
         applied |-> loaded.applied, lists |-> loaded.lists,
         error |-> loaded.error]

(* getImplementation that never looks into the cache. *)
getImplementationRebuild(registry, map, tree, loggerName) ==
    LET new == buildImplementation(registry, loggerName)
        ensured == ensureImplementationTreeExists(tree, loggerName)
    IN  IF new.error # NoError
        THEN [impl |-> new.impl, map |-> map, tree |-> tree, built |-> TRUE,
              applied |-> new.applied, lists |-> new.lists,
              error |-> new.error]
        ELSE [impl |-> new.impl,
              map |-> MapSet(map, loggerName, new.impl),
              tree |-> [ensured.tree EXCEPT ![ensured.node] = TRUE],
              built |-> TRUE, applied |-> new.applied, lists |-> new.lists,
              error |-> NoError]

(* getImplementation: the implementation returned, the cache and the tree
   afterwards, whether buildImplementation ran, and the error it threw:
   the tree and the cache are written only after it returned. *)
getImplementation(registry, map, tree, loggerName) ==
    IF loggerName \in DOMAIN map
    THEN [impl |-> map[loggerName], map |-> map, tree |-> tree,
          built |-> FALSE, applied |-> <<>>, lists |-> defaultLists,
          error |-> NoError]
    ELSE LET new == buildImplementation(registry, loggerName)
             ensured == ensureImplementationTreeExists(tree, loggerName)
         IN  IF new.error # NoError
             THEN [impl |-> new.impl, map |-> map, tree |-> tree,
                   built |-> TRUE, applied |-> new.applied,
                   lists |-> new.lists, error |-> new.error]
             ELSE [impl |-> new.impl,
                   map |-> MapSet(map, loggerName, new.impl),
                   tree |-> [ensured.tree EXCEPT ![ensured.node] = TRUE],
                   built |-> TRUE, applied |-> new.applied,
                   lists |-> new.lists, error |-> NoError]

(* A middleware, described by what it does when called: the logger names
   it passes to next, in order (NoName for the name it was given), each
   with the entry it was given, and whether it throws afterwards. *)
Middleware(id, emits, throws) ==
    [id |-> id, emits |-> emits, throws |-> throws]

(* The value undefined in the place of a middleware. *)
UndefinedMiddleware == Middleware("undefined", <<>>, TRUE)

(* A middleware that calls next with what it was given and then throws if
   the logger name is the given one. *)
ThrowsFor(name) ==
    [id |-> "selective", emits |-> <<<<>>>>, throws |-> TRUE, only |-> name]

(* xform(loggerName, entry, next): whether it threw, what it threw, and the
   pairs next collected in nextInvocations. *)
CallMiddleware(xform, loggerName, entry) ==
    [threw |-> xform.throws
               /\ (xform.id = "selective" => loggerName = xform.only),
     error |-> IF xform.id \in {"undefined", "decorator"} THEN "TypeError"
               ELSE "MiddlewareError",
     nextInvocations |->
        [i \in 1..Len(xform.emits) |->
            [loggerName |-> IF xform.emits[i] = <<>> THEN loggerName
                            ELSE xform.emits[i],
             entry |-> entry]]]

(* The invocation substituted for a middleware that threw. *)
Quarantine(error, entry, xform) ==
    <<[loggerName |-> EXTERNAL_ERROR_LOGGER_NAME,
       entry |-> [message |-> "An error occurred in middleware",
                  metas |-> <<[error |-> error, entry |-> entry,
                               middleware |-> xform]>>]]>>

RECURSIVE applyMiddleware(_, _, _)
RECURSIVE ApplyRemaining(_, _, _)
RECURSIVE ApplyRemainingReversed(_, _, _)

(* The loop over nextInvocations with each result put in front of the
   results collected before. *)
ApplyRemainingReversed(nextInvocations, i, remainingMiddlewares) ==
    IF i > Len(nextInvocations)
    THEN [invocations |-> <<>>, calls |-> <<>>]
    ELSE LET first == applyMiddleware(nextInvocations[i].loggerName,
                                      nextInvocations[i].entry,
                                      remainingMiddlewares)
             rest == ApplyRemainingReversed(nextInvocations, i + 1,
                                            remainingMiddlewares)
         IN  [invocations |-> rest.invocations \o first.invocations,
              calls |-> first.calls \o rest.calls]

(* The loop over nextInvocations that pushes the results of the remaining
   middlewares onto finalInvocations. *)
ApplyRemaining(nextInvocations, i, remainingMiddlewares) ==
    IF i > Len(nextInvocations)
    THEN [invocations |-> <<>>, calls |-> <<>>]
    ELSE LET first == applyMiddleware(nextInvocations[i].loggerName,
                                      nextInvocations[i].entry,
                                      remainingMiddlewares)
             rest == ApplyRemaining(nextInvocations, i + 1,
                                    remainingMiddlewares)
         IN  [invocations |-> first.invocations \o rest.invocations,
              calls |-> first.calls \o rest.calls]

(* applyMiddleware that returns what next collected before the throw
   together with the quarantine invocation. *)
applyMiddlewareKeepingNext(loggerName, entry, middlewares) ==
    LET xform == IF Len(middlewares) = 0 THEN UndefinedMiddleware
                 ELSE Head(middlewares)
        remainingMiddlewares ==
            IF Len(middlewares) = 0 THEN <<>> ELSE Tail(middlewares)
        run == CallMiddleware(xform, loggerName, entry)
        called == <<[middleware |-> xform, loggerName |-> loggerName,
                     entry |-> entry]>>
    IN  IF run.threw
        THEN [invocations |-> run.nextInvocations
                              \o Quarantine(run.error, entry, xform),
              calls |-> called]
        ELSE IF Len(remainingMiddlewares) > 0
        THEN LET final == ApplyRemaining(run.nextInvocations, 1,
                                         remainingMiddlewares)
             IN  [invocations |-> final.invocations,
                  calls |-> called \o final.calls]
        ELSE [invocations |-> run.nextInvocations, calls |-> called]

(* applyMiddleware that sends the quarantine invocation through the
   remaining middlewares. *)
applyMiddlewareQuarantineThrough(loggerName, entry, middlewares) ==
    LET xform == IF Len(middlewares) = 0 THEN UndefinedMiddleware
                 ELSE Head(middlewares)
        remainingMiddlewares ==
            IF Len(middlewares) = 0 THEN <<>> ELSE Tail(middlewares)
        run == CallMiddleware(xform, loggerName, entry)
        called == <<[middleware |-> xform, loggerName |-> loggerName,
                     entry |-> entry]>>
        nextInvocations == IF run.threw
                           THEN Quarantine(run.error, entry, xform)
                           ELSE run.nextInvocations
    IN  IF Len(remainingMiddlewares) > 0
        THEN LET final == ApplyRemaining(nextInvocations, 1,
                                         remainingMiddlewares)
             IN  [invocations |-> final.invocations,
                  calls |-> called \o final.calls]
        ELSE [invocations |-> nextInvocations, calls |-> called]

(* applyMiddleware that hands the entry on when next was never invoked. *)
applyMiddlewareForwarding(loggerName, entry, middlewares) ==
    LET xform == IF Len(middlewares) = 0 THEN UndefinedMiddleware
                 ELSE Head(middlewares)
        remainingMiddlewares ==
            IF Len(middlewares) = 0 THEN <<>> ELSE Tail(middlewares)
        run == CallMiddleware(xform, loggerName, entry)
        called == <<[middleware |-> xform, loggerName |-> loggerName,
                     entry |-> entry]>>
        forwarded == IF Len(run.nextInvocations) = 0
                     THEN <<[loggerName |-> loggerName, entry |-> entry]>>
                     ELSE run.nextInvocations
    IN  IF run.threw
        THEN [invocations |-> Quarantine(run.error, entry, xform),
              calls |-> called]
        ELSE IF Len(remainingMiddlewares) > 0
        THEN LET final == ApplyRemaining(forwarded, 1, remainingMiddlewares)
             IN  [invocations |-> final.invocations,
                  calls |-> called \o final.calls]
        ELSE [invocations |-> forwarded, calls |-> called]

(* applyMiddleware: the invocations it returns, and the calls of middleware
   functions it made, in order.  With an empty list xform is undefined, and
   calling it throws a TypeError inside the try block. *)
applyMiddleware(loggerName, entry, middlewares) ==
    LET xform == IF Len(middlewares) = 0 THEN UndefinedMiddleware
                 ELSE Head(middlewares)
        remainingMiddlewares ==
            IF Len(middlewares) = 0 THEN <<>> ELSE Tail(middlewares)
        run == CallMiddleware(xform, loggerName, entry)
        called == <<[middleware |-> xform, loggerName |-> loggerName,
                     entry |-> entry]>>
    IN  IF run.threw
        THEN [invocations |-> Quarantine(run.error, entry, xform),
              calls |-> called]
        ELSE IF Len(remainingMiddlewares) > 0
        THEN LET final == ApplyRemaining(run.nextInvocations, 1,
                                         remainingMiddlewares)
             IN  [invocations |-> final.invocations,
                  calls |-> called \o final.calls]
        ELSE [invocations |-> run.nextInvocations, calls |-> called]

(* The list a list property of a cached configuration holds now: an aliased
   one holds the array of defaultConfig with its present contents, and a
   middleware property set by a configurator holds the array that
   configurator was built with. *)
ListOf(config, prop, lists) ==
    IF prop \in config.aliased THEN lists[prop]
    ELSE IF prop = "middleware" /\ config.holder # NoHolder
    THEN HeldArray(lists, config.holder)
    ELSE config[prop]

(* The preliminary entry with the call's metadata put before the
   decorations. *)
RunMiddlewareMetasFirst(impl, message, metas, lists) ==
    applyMiddleware(impl.loggerName,
                    [message |-> message,
                     metas |-> metas
                               \o ListOf(impl.config, "decorations", lists)],
                    ListOf(impl.config, "middleware", lists))

(* The first part of an implementation's body: the preliminary entry and
   the result of applyMiddleware.  The entry's date is left out. *)
RunMiddleware(impl, message, metas, lists) ==
    applyMiddleware(impl.loggerName,
                    [message |-> message,
                     metas |-> ListOf(impl.config, "decorations", lists)
                               \o metas],
                    ListOf(impl.config, "middleware", lists))

(* The for loop calling, for each invocation, the receiver of the
   configuration resolved for the name the invocation carries. *)
ReceiverCallsByName(impl, invocations) ==
    [i \in 1..Len(invocations) |->
        [receiver |-> getConfig(configurators,
                                invocations[i].loggerName).config.receiver,
         loggerName |-> invocations[i].loggerName,
         message |-> invocations[i].entry.message,
         metas |-> invocations[i].entry.metas]]

(* The receiver calls the for loop of an implementation is to make for the
   invocations: config.receiver({loggerName, ...entry}). *)
ReceiverCalls(impl, invocations) ==
    [i \in 1..Len(invocations) |->
        [receiver |-> impl.config.receiver,
         loggerName |-> invocations[i].loggerName,
         message |-> invocations[i].entry.message,
         metas |-> invocations[i].entry.metas]]

(* Calling an implementation while the arrays of defaultConfig hold lists:
   the receiver calls its for loop is to make. *)
InvokeWith(impl, message, metas, lists) ==
    IF impl.noop THEN <<>>
    ELSE ReceiverCalls(impl,
                       RunMiddleware(impl, message, metas, lists).invocations)

(* Calling an implementation in the current state. *)
Invoke(impl, message, metas) == InvokeWith(impl, message, metas, defaultLists)

(* The receivers: NOOP and "spy" keep nothing, "recorder" keeps what it is
   given, "async" keeps it and returns a future that settles later, "bomb"
   throws. *)
Receivers == {NOOP, "spy", "recorder", "async", "bomb"}

RECURSIVE Deliver(_, _, _)
RECURSIVE DeliverBackwards(_, _, _)

(* The for loop over the invocations run from the last to the first. *)
DeliverBackwards(calls, i, acc) ==
    IF i > Len(calls) \/ acc.threw # "none" THEN acc
    ELSE LET c == calls[Len(calls) + 1 - i]
             records == c.receiver \in {"recorder", "async"}
         IN  DeliverBackwards(calls, i + 1,
                 [delivered |-> Append(acc.delivered, c),
                  outstanding |-> Append(acc.outstanding, acc.pending),
                  received |-> IF records THEN Append(acc.received, c)
                               ELSE acc.received,
                  pending |-> IF c.receiver = "async" THEN acc.pending + 1
                              ELSE acc.pending,
                  threw |-> IF c.receiver = "bomb" THEN "ReceiverError"
                            ELSE "none"])

(* The for loop of an implementation: config.receiver is called with each
   invocation in turn and what it returns is dropped; an error it throws
   ends the loop.  acc carries the calls made, the number of unsettled
   futures at each call, what the recording receivers hold, the number of
   unsettled futures, and the error thrown. *)
Deliver(calls, i, acc) ==
    IF i > Len(calls) \/ acc.threw # "none" THEN acc
    ELSE LET c == calls[i]
             records == c.receiver \in {"recorder", "async"}
         IN  Deliver(calls, i + 1,
                 [delivered |-> Append(acc.delivered, c),
                  outstanding |-> Append(acc.outstanding, acc.pending),
                  received |-> IF records THEN Append(acc.received, c)
                               ELSE acc.received,
                  pending |-> IF c.receiver = "async" THEN acc.pending + 1
                              ELSE acc.pending,
                  threw |-> IF c.receiver = "bomb" THEN "ReceiverError"
                            ELSE "none"])

(* ------------------------------------------------------------------ *)
(* Legacy engine (index.js): the shared record on the global object     *)
(* ------------------------------------------------------------------ *)
COMPATIBILITY_VERSION == 1

(* g.master: null, or the name of the master. *)
NullMaster == [isNull |-> TRUE, name |-> <<>>]

Master(name) == [isNull |-> FALSE, name |-> name]

(* g.core: null, or the object createCore returned, which closes over
   masterConfig; record is masterConfig.record, "none" when it has none. *)
NullCore == [isNull |-> TRUE, record |-> "none"]

createCore(masterConfig) == [isNull |-> FALSE, record |-> masterConfig.record]

emptyRegistrations == [k \in {} |-> <<>>]

(* typeof globalContent[MAGIC] === "undefined" *)
UndefinedSlot ==
    [defined |-> FALSE, master |-> NullMaster, compatibilityVersion |-> 0,
     byId |-> emptyRegistrations, byName |-> emptyRegistrations,
     core |-> NullCore, backends |-> emptyRegistrations]

(* The value register defines on the global object when there is none. *)
NewSlot ==
    [defined |-> TRUE, master |-> NullMaster,
     compatibilityVersion |-> COMPATIBILITY_VERSION,
     byId |-> emptyRegistrations, byName |-> emptyRegistrations,
     core |-> NullCore, backends |-> emptyRegistrations]

(* The properties an object literal inherits from Object.prototype. *)
ObjectPrototypeProperties ==
    {"constructor", "hasOwnProperty", "isPrototypeOf",
     "propertyIsEnumerable", "toLocaleString", "toString", "valueOf",
     "__proto__", "__defineGetter__", "__defineSetter__",
     "__lookupGetter__", "__lookupSetter__"}

(* typeof g.registrations.byId[registrationId] !== "undefined": byId is an
   object literal, so that an inherited property is found as well. *)
definedById(g, registrationId) ==
    \/ registrationId \in DOMAIN g.byId
    \/ registrationId \in ObjectPrototypeProperties

(* typeof g.registrations.byName[name] !== "undefined" *)
definedByName(g, name) ==
    \/ name \in DOMAIN g.byName
    \/ Len(name) = 1 /\ name[1] \in ObjectPrototypeProperties

(* register that makes every registrant the master. *)
registerLastIsMaster(slot, registrationId, name, masterConfig) ==
    LET g == IF slot.defined THEN slot ELSE NewSlot
    IN  IF slot.defined /\ slot.compatibilityVersion # COMPATIBILITY_VERSION
        THEN [threw |-> "Incompatible", slot |-> slot]
        ELSE IF definedByName(g, name)
        THEN [threw |-> "NameRegistered", slot |-> g]
        ELSE IF definedById(g, registrationId)
        THEN [threw |-> "IdRegistered", slot |-> g]
        ELSE [threw |-> "none",
              slot |-> [g EXCEPT
                  !.master = Master(name),
                  !.core = createCore(masterConfig),
                  !.byId = MapSet(@, registrationId, name),
                  !.byName = MapSet(@, name, name)]]

(* register that does not compare the compatibility versions. *)
registerAnyVersion(slot, registrationId, name, masterConfig) ==
    LET g == IF slot.defined THEN slot ELSE NewSlot
    IN  IF definedByName(g, name)
        THEN [threw |-> "NameRegistered", slot |-> g]
        ELSE IF definedById(g, registrationId)
        THEN [threw |-> "IdRegistered", slot |-> g]
        ELSE [threw |-> "none",
              slot |-> [g EXCEPT
                  !.master = IF g.master.isNull THEN Master(name) ELSE @,
                  !.core = IF g.master.isNull THEN createCore(masterConfig)
                           ELSE @,
                  !.byId = MapSet(@, registrationId, name),
                  !.byName = MapSet(@, name, name)]]

(* register(registrationId, name, masterConfig) of a copy of the library
   whose COMPATIBILITY_VERSION is version: the error it threw and the
   shared record afterwards.  byName maps a name to its registration,
   which is identified by the name its getLogger closes over. *)
registerAs(version, slot, registrationId, name, masterConfig) ==
    LET g == IF slot.defined THEN slot
             ELSE [NewSlot EXCEPT !.compatibilityVersion = version]
    IN  IF slot.defined /\ slot.compatibilityVersion # version
        THEN [threw |-> "Incompatible", slot |-> slot]
        ELSE IF definedByName(g, name)
        THEN [threw |-> "NameRegistered", slot |-> g]
        ELSE IF definedById(g, registrationId)
        THEN [threw |-> "IdRegistered", slot |-> g]
        ELSE [threw |-> "none",
              slot |-> [g EXCEPT
                  !.master = IF g.master.isNull THEN Master(name) ELSE @,
                  !.core = IF g.master.isNull THEN createCore(masterConfig)
                           ELSE @,
                  !.byId = MapSet(@, registrationId, name),
                  !.byName = MapSet(@, name, name)]]

(* register of this copy. *)
register(slot, registrationId, name, masterConfig) ==
    registerAs(COMPATIBILITY_VERSION, slot, registrationId, name,
               masterConfig)

(* The argument of a registration's getLogger: null, or a sub-name. *)
NullSubName == [isNull |-> TRUE, name |-> <<>>]

SubName(name) == [isNull |-> FALSE, name |-> name]

createBackend(rootName, fullName) ==
    [rootName |-> rootName, fullName |-> fullName]

(* index.js getLogger(rootName, name): the backends afterwards and the
   backend the LoggingInterface is constructed with. *)
legacyGetLogger(slot, rootName, name) ==
    LET fullName == IF name.isNull THEN rootName
                    ELSE rootName \o <<Slash>> \o name.name
        backends == IF fullName \in DOMAIN slot.backends THEN slot.backends
                    ELSE MapSet(slot.backends, fullName,
                                createBackend(rootName, fullName))
    IN  [slot |-> [slot EXCEPT !.backends = backends],
         backend |-> backends[fullName]]

(* name.startsWith("/") *)
StartsWithSlash(name) == Len(name) > 0 /\ name[1] = Slash

(* The record function of the core that always takes the name as relative
   to the root name. *)
coreRecordRelative(core, type, rootName, fullName, name, data) ==
    LET recordName == rootName \o <<Slash>> \o name
    IN  [recordName |-> recordName,
         invoked |-> IF core.record # "none"
                     THEN <<[callback |-> core.record, type |-> type,
                             name |-> recordName, data |-> data]>>
                     ELSE <<>>]

(* The record function of the object createCore returns: the final name
   and the calls of masterConfig.record it makes. *)
coreRecord(core, type, rootName, fullName, name, data) ==
    LET recordName == IF StartsWithSlash(name) THEN fullName \o name
                      ELSE rootName \o <<Slash>> \o name
    IN  [recordName |-> recordName,
         invoked |-> IF core.record # "none"
                     THEN <<[callback |-> core.record, type |-> type,
                             name |-> recordName, data |-> data]>>
                     ELSE <<>>]

(* The methods of the object createBackend returns. *)
BackendMethods == {"record"}

(* The method of this._core a LoggingInterface method calls: event and log
   call writeTo, set calls writeOver. *)
interfaceTarget(method) == IF method = "set" THEN "writeOver" ELSE "writeTo"

(* The name it passes: the one given, or `logs/${level}` for log. *)
interfaceName(method, name, level) ==
    IF method = "log" THEN <<"logs", Slash, level>> ELSE name

(* event(name, data), set(name, value) or log(level, message) on the
   LoggingInterface constructed with backend: calling a method the backend
   does not have throws a TypeError. *)
LoggingInterfaceCall(core, backend, method, name, level, data) ==
    IF interfaceTarget(method) \notin BackendMethods
    THEN [threw |-> "TypeError", recordName |-> <<>>, invoked |-> <<>>]
    ELSE LET done == coreRecord(core, method, backend.rootName,
                                backend.fullName,
                                interfaceName(method, name, level), data)
         IN  [threw |-> "none", recordName |-> done.recordName,
              invoked |-> done.invoked]

(* ------------------------------------------------------------------ *)
(* Client wrapper: let impl = null                                      *)
(* ------------------------------------------------------------------ *)
NullImpl == "null"

(* core.logging.getLogger and getNoopLogger *)
EngineGetLogger == "core.logging.getLogger"

getNoopLogger == "getNoopLogger"

(* The value undefined held by impl. *)
UndefinedImpl == "undefined"

(* What require("@loglow/core") does: it throws, or it returns the
   exports of the package, which have the property logger or lack it, and
   whose property logging is absent or an object whose getLogger is the
   engine's function, null or undefined. *)
RequireOutcomes ==
    {[throws |-> TRUE, hasLogger |-> FALSE, logging |-> "absent"]}
    \cup [throws : {FALSE}, hasLogger : BOOLEAN,
          logging : {"absent", "function", "null", "undefined"}]

(* core.logging.getLogger *)
loggingGetLogger(outcome) ==
    CASE outcome.logging = "function" -> EngineGetLogger
      [] outcome.logging = "null" -> NullImpl
      [] OTHER -> UndefinedImpl

(* importCore(): whether require was called, and impl afterwards.  Inside
   the try block require throws, the read of core.logger.getLogger throws
   a TypeError when the exports have no property logger, and the read of
   core.logging.getLogger throws one when they have no property logging;
   otherwise impl gets the value of core.logging.getLogger, whatever it
   is. *)
importCore(impl, outcome) ==
    IF impl = NullImpl
    THEN [required |-> TRUE,
          impl |-> IF outcome.throws \/ ~outcome.hasLogger
                      \/ outcome.logging = "absent"
                   THEN getNoopLogger
                   ELSE loggingGetLogger(outcome)]
    ELSE [required |-> FALSE, impl |-> impl]

(* ------------------------------------------------------------------ *)
(* Operations                                                           *)
(* ------------------------------------------------------------------ *)
NoName == <<>>

Init ==
    /\ currentKey = NullKey
    /\ handles = {}
    /\ configurators = (ROOT :> DEFAULT_ROOT_CONFIGURATOR)
    /\ implementationMap = emptyMap
    /\ knownImplementations = emptyTree
    /\ defaultLists = initialLists
    /\ received = <<>>
    /\ pending = 0
    /\ globalSlot = UndefinedSlot
    /\ clientImpl = NullImpl
    /\ call = [op |-> "init", caller |-> Module, name |-> NoName,
               configurator |-> NullConfigurator]
    /\ ret = [acquired |-> FALSE]

(* config.ts lock(): a handle bound to a fresh key, or the dummy handle. *)
Lock ==
    LET key == getKey
        handle == IF key = NullKey THEN DummyHandle ELSE KeyHandle(key)
    IN  /\ key <= MaxKeys
        /\ currentKey' = (IF key = NullKey THEN currentKey ELSE key)
        /\ handles' = handles \cup {handle}
        /\ call' = [op |-> "lock", caller |-> Module, name |-> NoName,
                    configurator |-> NullConfigurator]
        /\ ret' = handle
        /\ UNCHANGED <<packageVars, configVars, deliveryVars>>

(* handle.unlock(), or locking.js unlock(null) for a caller without key. *)
Unlock(caller) ==
    /\ currentKey' = (IF Bound(caller) THEN unlock(caller.key) ELSE currentKey)
    /\ call' = [op |-> "unlock", caller |-> caller, name |-> NoName,
                configurator |-> NullConfigurator]
    /\ ret' = [acquired |-> FALSE]
    /\ UNCHANGED <<packageVars, handles, configVars, deliveryVars>>

setConfiguratorWithLock(key, loggerName, configurator) ==
    IF isKey(key)
    THEN LET cleared == clearImplementations(implementationMap,
                                             knownImplementations, loggerName)
         IN  /\ configurators' = MapSet(configurators, loggerName,
                                        wrapConfigurator(configurator))
             /\ implementationMap' = cleared.map
             /\ knownImplementations' = cleared.tree
    ELSE UNCHANGED configVars

(* The keys of the registry that are functions. *)
FunctionKeys(map) == {k \in DOMAIN map : Len(k) = 4 /\ k[1] = "function"}

(* The most functions the registry is let to hold as keys. *)
MaxFunctions == 3

(* The key of the registry a function or null makes when it is passed as
   the logger name.  A Map finds a function by identity, and every call of
   wrapConfigurator returns a new function: the key is numbered apart from
   the functions that are keys of the registry already. *)
FunctionKey(configurator, map) ==
    IF configurator = NullConfigurator THEN <<"null">>
    ELSE <<"function", configurator.kind, configurator.tag,
           Numerals[Cardinality(FunctionKeys(map)) + 1]>>

(* The exported setConfigurator(loggerName, configurator) calls
   setConfiguratorWithLock(loggerName, wrapped, null): the logger name is
   taken for the key, the wrapped configurator for the logger name and
   null for the configurator.  With the key check passed, null is stored
   under the wrapped configurator and clearImplementations throws a
   TypeError on the split of a logger name that is no string. *)
exportedSetConfigurator(loggerName, configurator) ==
    IF isKey(NotAKey)
    THEN /\ configurators' =
              MapSet(configurators,
                     FunctionKey(wrapConfigurator(configurator),
                                 configurators),
                     wrapConfigurator(NullConfigurator))
         /\ UNCHANGED <<implementationMap, knownImplementations>>
    ELSE UNCHANGED configVars

(* setConfigurator of the module, of a handle with a key (bound to
   setConfiguratorWithLock) or of the dummy handle (NOOP). *)
SetConfigurator(caller, loggerName, configurator) ==
    /\ IF caller = Module
       THEN exportedSetConfigurator(loggerName, configurator)
       ELSE IF Bound(caller)
       THEN setConfiguratorWithLock(caller.key, loggerName, configurator)
       ELSE UNCHANGED configVars
    /\ (caller = Module /\ isKey(NotAKey))
           => Cardinality(FunctionKeys(configurators)) < MaxFunctions
    /\ call' = [op |-> "setConfigurator", caller |-> caller,
                name |-> loggerName, configurator |-> configurator]
    /\ ret' = [acquired |-> FALSE,
               threw |-> IF caller = Module /\ isKey(NotAKey)
                         THEN "TypeError" ELSE "none"]
    /\ UNCHANGED <<packageVars, currentKey, handles, deliveryVars>>

setRootConfiguratorWithLock(key, configurator) ==
    IF isKey(key)
    THEN /\ configurators' = MapSet(configurators, ROOT,
                                    wrapConfigurator(configurator))
         /\ implementationMap' = clearAlImplementations.map
         /\ knownImplementations' = clearAlImplementations.tree
    ELSE UNCHANGED configVars

(* The exported setRootConfigurator(configurator) calls
   setRootConfiguratorWithLock(wrapped, null): the wrapped configurator is
   taken for the key and null for the configurator. *)
exportedSetRootConfigurator(configurator) ==
    setRootConfiguratorWithLock(
        IF configurator = NullConfigurator THEN NullKey ELSE NotAKey,
        NullConfigurator)

SetRootConfigurator(caller, configurator) ==
    /\ IF caller = Module
       THEN exportedSetRootConfigurator(configurator)
       ELSE IF Bound(caller)
       THEN setRootConfiguratorWithLock(caller.key, configurator)
       ELSE UNCHANGED configVars
    /\ call' = [op |-> "setRootConfigurator", caller |-> caller,
                name |-> NoName, configurator |-> configurator]
    /\ ret' = [acquired |-> FALSE, threw |-> "none"]
    /\ UNCHANGED <<packageVars, currentKey, handles, deliveryVars>>

resetConfigWithLock(key) ==
    IF isKey(key)
    THEN /\ configurators' = (ROOT :> DEFAULT_ROOT_CONFIGURATOR)
         /\ implementationMap' = emptyMap
         /\ knownImplementations' = emptyTree
    ELSE UNCHANGED configVars

(* resetConfig that also releases the outstanding token. *)
ResetConfigReleasing(caller) ==
    /\ IF Bound(caller)
       THEN resetConfigWithLock(caller.key)
       ELSE UNCHANGED configVars
    /\ currentKey' = NullKey
    /\ call' = [op |-> "resetConfig", caller |-> caller, name |-> NoName,
                configurator |-> NullConfigurator]
    /\ ret' = [acquired |-> FALSE]
    /\ UNCHANGED <<packageVars, handles, deliveryVars>>

ResetConfig(caller) ==
    /\ IF Bound(caller)
       THEN resetConfigWithLock(caller.key)
       ELSE UNCHANGED configVars
    /\ call' = [op |-> "resetConfig", caller |-> caller, name |-> NoName,
                configurator |-> NullConfigurator]
    /\ ret' = [acquired |-> FALSE]
    /\ UNCHANGED <<packageVars, currentKey, handles, deliveryVars>>

(* The metadata arguments of a log call. *)
CallMetas == <<PlainMeta("own")>>

(* The most entries the recording receivers are let to hold, and the most
   elements the arrays of defaultConfig are let to grow to. *)
MaxReceived == 3

MaxShared == 2

(* The implementation getImplementation returned is called: the result of
   applyMiddleware, then the for loop over the receiver calls.  Nothing is
   called when getImplementation threw. *)
CallImplementation(got, message, metas) ==
    LET run == IF got.impl.noop \/ got.error # NoError
               THEN [invocations |-> <<>>, calls |-> <<>>]
               ELSE RunMiddleware(got.impl, message, metas, got.lists)
    IN  [calls |-> run.calls,
         done |-> Deliver(ReceiverCalls(got.impl, run.invocations), 1,
                          [delivered |-> <<>>, outstanding |-> <<>>,
                           received |-> received, pending |-> pending,
                           threw |-> "none"])]

(* log({loggerName, message, metas}): getImplementation(loggerName) and
   then the call of the implementation it returned. *)
LogCall(loggerName, message, metas) ==
    \E got \in {getImplementation(configurators, implementationMap,
                                  knownImplementations, loggerName)} :
      \E called \in {CallImplementation(got, message, metas)} :
        /\ Len(called.done.received) <= MaxReceived
        /\ Len(got.lists.decorations) <= MaxShared
        /\ Len(got.lists.middleware) <= MaxShared
        /\ \A array \in DOMAIN got.lists.held :
               Len(got.lists.held[array]) <= MaxShared + 1
        /\ implementationMap' = got.map
        /\ knownImplementations' = got.tree
        /\ defaultLists' = got.lists
        /\ received' = called.done.received
        /\ pending' = called.done.pending
        /\ call' = [op |-> "log", caller |-> Module, name |-> loggerName,
                    configurator |-> NullConfigurator, message |-> message,
                    metas |-> metas]
        /\ ret' = [impl |-> got.impl, built |-> got.built,
                   applied |-> got.applied,
                   calls |-> called.calls,
                   delivered |-> called.done.delivered,
                   outstanding |-> called.done.outstanding,
                   threw |-> IF got.error # NoError THEN "ConfiguratorError"
                             ELSE called.done.threw,
                   error |-> got.error]
        /\ UNCHANGED <<packageVars, currentKey, handles, configurators>>

Log(loggerName) == LogCall(loggerName, "message", CallMetas)

(* The names used while exercising the lock. *)
LockNames == {NameA, NameAB}

Next ==
    \/ Lock
    \/ \E caller \in Callers : Unlock(caller)
    \/ \E caller \in handles, c \in UserConfigurators :
           SetConfigurator(caller, NameAB, c)
    \/ SetConfigurator(Module, NameA, Configure("t1"))
    \/ \E caller \in Callers, c \in RootConfigurators :
           SetRootConfigurator(caller, c)
    \/ \E caller \in Callers : ResetConfig(caller)
    \/ Log(NameAB)

Spec == Init /\ [][Next]_vars

(* The engine configured by the holder of the lock: the first step takes
   the lock, and every configuration call goes through its handle. *)
NextCache ==
    \/ handles = {} /\ Lock
    \/ \E n \in Names, c \in UserConfigurators :
           \E h \in handles : SetConfigurator(h, n, c)
    \/ \E c \in RootConfigurators :
           \E h \in handles : SetRootConfigurator(h, c)
    \/ \E h \in handles : ResetConfig(h)
    \/ \E n \in Names : Log(n)

SpecCache == Init /\ [][NextCache]_vars

(* ------------------------------------------------------------------ *)
(* Resolution of a name against an arbitrary registry                   *)
(* ------------------------------------------------------------------ *)
NameABC == <<"a", "/", "b", "/", "c">>

ResolveNames == Names \cup {NameABC}

(* What setConfigurator may have stored at a path. *)
ResolveConfigurators ==
    {wrapConfigurator(c) : c \in {Decorate("t1"), Decorate("t2"), DeleteEnabled}}

(* What the ROOT key may hold. *)
ResolveRoots ==
    {DEFAULT_ROOT_CONFIGURATOR, NullConfigurator,
     wrapConfigurator(Decorate("t1")), wrapConfigurator(DeleteEnabled)}

(* Any registry that setConfigurator and setRootConfigurator calls can
   leave behind, with nothing cached. *)
InitResolve ==
    /\ currentKey = NullKey
    /\ handles = {}
    /\ \E S \in SUBSET ResolveNames :
         \E f \in [S -> ResolveConfigurators] :
           \E r \in ResolveRoots :
             configurators = MapSet(f, ROOT, r)
    /\ implementationMap = emptyMap
    /\ knownImplementations = emptyTree
    /\ defaultLists = initialLists
    /\ received = <<>>
    /\ pending = 0
    /\ globalSlot = UndefinedSlot
    /\ clientImpl = NullImpl
    /\ call = [op |-> "init", caller |-> Module, name |-> NoName,
               configurator |-> NullConfigurator]
    /\ ret = [acquired |-> FALSE]

(* getConfig(loggerName) *)
GetConfig(loggerName) ==
    /\ call' = [op |-> "getConfig", caller |-> Module, name |-> loggerName,
                configurator |-> NullConfigurator]
    /\ ret' = getConfig(configurators, loggerName)
    /\ defaultLists' = getConfig(configurators, loggerName).lists
    /\ UNCHANGED <<packageVars, currentKey, handles, configVars, received, pending>>

NextResolve == \E n \in ResolveNames : GetConfig(n)

SpecResolve == InitResolve /\ [][NextResolve]_vars

(* ------------------------------------------------------------------ *)
(* The pipeline of a log call: middleware and receivers                 *)
(* ------------------------------------------------------------------ *)
NameX == <<"x">>

NameY == <<"y">>

(* (loggerName, entry, next) => next(loggerName, entry) *)
Pass == Middleware("pass", <<NoName>>, FALSE)

(* (loggerName, entry, next) => { next("x", entry); next("y", entry); } *)
Fan == Middleware("fan", <<NameX, NameY>>, FALSE)

(* (loggerName, entry, next) => {} *)
Drop == Middleware("drop", <<>>, FALSE)

(* (loggerName, entry, next) => { next(loggerName, entry); throw error; } *)
Thrower == Middleware("thrower", <<NoName>>, TRUE)

(* The middleware lists configurators install. *)
MiddlewareLists ==
    {<<Pass>>, <<Fan>>, <<Fan, Pass>>, <<Drop, Pass>>, <<Thrower>>,
     <<Pass, Thrower>>}

(* The configurators registered while exercising the pipeline. *)
PipelineConfigurators ==
    {Enable("recorder")}
    \cup {PipelineOn("recorder", "mws", mws) : mws \in MiddlewareLists}

(* The messages of the log calls. *)
Messages == {"m1", "m2"}

(* next(loggerName, logEntry) of lines 1271-1273: the pair is pushed onto
   nextInvocations, whether or not the middleware it was handed to has
   returned; nothing is thrown. *)
next(nextInvocations, loggerName, logEntry) ==
    [threw |-> "none",
     nextInvocations |-> Append(nextInvocations,
                                [loggerName |-> loggerName,
                                 entry |-> logEntry])]

(* A middleware function that ran in the log call just made kept the next
   it was handed and invokes it now, after it has returned.  The array next
   pushes onto is not read again. *)
LateNext ==
    /\ call.op = "log"
    /\ \E i \in DOMAIN ret.calls :
         LET c == ret.calls[i]
             late == next(CallMiddleware(c.middleware, c.loggerName,
                                         c.entry).nextInvocations,
                          c.loggerName, c.entry)
         IN  /\ c.middleware # UndefinedMiddleware
             /\ call' = [op |-> "lateNext", caller |-> Module,
                         name |-> c.loggerName,
                         configurator |-> NullConfigurator]
             /\ ret' = [threw |-> late.threw,
                        nextInvocations |-> late.nextInvocations,
                        delivered |-> <<>>]
    /\ UNCHANGED <<packageVars, currentKey, handles, configVars, deliveryVars>>

NextPipeline ==
    \/ handles = {} /\ Lock
    \/ \E c \in PipelineConfigurators :
           \E h \in handles : SetConfigurator(h, NameA, c)
    \/ \E h \in handles : ResetConfig(h)
    \/ \E m \in Messages : LogCall(NameAB, m, CallMetas)
    \/ LateNext

SpecPipeline == Init /\ [][NextPipeline]_vars

(* ------------------------------------------------------------------ *)
(* Receivers that return futures or throw                               *)
(* ------------------------------------------------------------------ *)
(* The configurators registered while exercising the receivers. *)
ReceiverConfigurators ==
    {PipelineOn("async", "mws", <<Fan>>), Enable("async"), Enable("bomb")}

(* A future a receiver returned settles. *)
Settle ==
    /\ pending > 0
    /\ pending' = pending - 1
    /\ call' = [op |-> "settle", caller |-> Module, name |-> NoName,
                configurator |-> NullConfigurator]
    /\ ret' = [acquired |-> FALSE]
    /\ UNCHANGED <<packageVars, currentKey, handles, configVars, defaultLists, received>>

NextReceivers ==
    \/ handles = {} /\ Lock
    \/ \E n \in LockNames, c \in ReceiverConfigurators :
           \E h \in handles : SetConfigurator(h, n, c)
    \/ \E h \in handles : ResetConfig(h)
    \/ \E n \in LockNames : Log(n)
    \/ Settle

SpecReceivers == Init /\ [][NextReceivers]_vars

(* ------------------------------------------------------------------ *)
(* Configurators that append to the lists of the configuration          *)
(* ------------------------------------------------------------------ *)
(* The configurators registered while exercising the default lists. *)
DefaultsConfigurators == {EnableAppender("recorder", "t1"), Appender("t2")}

NextDefaults ==
    \/ handles = {} /\ Lock
    \/ \E n \in LockNames, c \in DefaultsConfigurators :
           \E h \in handles : SetConfigurator(h, n, c)
    \/ \E c \in {Appender("t2"), NullConfigurator} :
           \E h \in handles : SetRootConfigurator(h, c)
    \/ \E h \in handles : ResetConfig(h)
    \/ \E n \in LockNames : Log(n)

SpecDefaults == Init /\ [][NextDefaults]_vars

(* ------------------------------------------------------------------ *)
(* Configurators that throw                                             *)
(* ------------------------------------------------------------------ *)
(* The values the throwing configurators throw. *)
ThrownValues ==
    {TestError, BareError, ThrownString, ThrownNull, ThrownUndefined}

FailingConfigurators ==
    {Throwing(e) : e \in ThrownValues} \cup {Enable("recorder")}

FailingRoots == {Throwing(TestError), NullConfigurator}

NextFailing ==
    \/ handles = {} /\ Lock
    \/ \E n \in LockNames, c \in FailingConfigurators :
           \E h \in handles : SetConfigurator(h, n, c)
    \/ \E c \in FailingRoots :
           \E h \in handles : SetRootConfigurator(h, c)
    \/ \E h \in handles : ResetConfig(h)
    \/ \E n \in LockNames : Log(n)

SpecFailing == Init /\ [][NextFailing]_vars

(* ------------------------------------------------------------------ *)
(* config-util addDecorator                                             *)
(* ------------------------------------------------------------------ *)
DecoratorConfigurators ==
    {EnableDecorated("recorder", "t1"), addDecorator("t2")}

(* The name each of them is registered at. *)
DecoratorName(c) == IF c.kind = "enableDecorated" THEN NameA ELSE NameAB

(* The names the pipelines are registered at. *)
PipelineNames == {NameA, NameX}

(* The pipelines, built with the arrays const p = [Pass] and
   const q = [Pass]: one configurator object registered at either name,
   any number of times, and one built apart from it. *)
Pipelines ==
    {<<n, PipelineOn("spy", "p", <<Pass>>)>> : n \in PipelineNames}
    \cup {<<NameX, PipelineOn("spy", "q", <<Pass>>)>>}

NextDecorators ==
    \/ handles = {} /\ Lock
    \/ \E p \in Pipelines :
           \E h \in handles : SetConfigurator(h, p[1], p[2])
    \/ \E c \in DecoratorConfigurators :
           \E h \in handles : SetConfigurator(h, DecoratorName(c), c)
    \/ \E h \in handles : ResetConfig(h)
    \/ \E n \in LockNames \cup PipelineNames : Log(n)

SpecDecorators == Init /\ [][NextDecorators]_vars

(* ------------------------------------------------------------------ *)
(* Metadata normalizer (metadata.ts)                                    *)
(* ------------------------------------------------------------------ *)
(* A property name is the one-element sequence of its text, so that the
   empty sequence is no name. *)
Key(text) == <<text>>

(* `${type}${i}`: the text of the type followed by the numeral, one
   string equal to any other string of the same characters. *)
Suffixed(type, i) == Key(type[1] \o Numerals[i])

(* An object without own enumerable properties. *)
EmptyFields == [k \in {} |-> ""]

(* The values passed as metadata.  type tells what the value is; an Error
   has name, message and stack; a string has its text; an object has its
   own enumerable properties, all of them strings; thrown tells what a
   getter of the object throws when the property is read. *)
RawValue(type, name, message, text, fields, thrown) ==
    [type |-> type, name |-> name, message |-> message,
     stack |-> IF type = "Error" THEN "stack of " \o name ELSE "",
     text |-> text, fields |-> fields, thrown |-> thrown]

RawNull == RawValue("null", "", "", "", EmptyFields, "none")

RawUndefined == RawValue("undefined", "", "", "", EmptyFields, "none")

RawString(text) == RawValue("string", "", "", text, EmptyFields, "none")

RawError(name, message, fields) ==
    RawValue("Error", name, message, "", fields, "none")

RawRecord(fields) == RawValue("record", "", "", "", fields, "none")

(* { get broken() { throw <thrown>; } } *)
RawPoison(thrown) == RawValue("record", "", "", "", EmptyFields, thrown)

(* The error a throwing getter throws, and the TypeError the runtime
   throws for a property access on null or undefined. *)
GetterError == RawError("GetterError", "getter failed", EmptyFields)

NullTypeError ==
    RawError("TypeError", "Cannot convert undefined or null to object",
             EmptyFields)

ThrownValue(thrown) == IF thrown = "null" THEN RawNull ELSE GetterError

(* A normalized value: a string or null, a record tagged with "@kind", or
   a record without a tag.  fields are the properties besides "@kind". *)
Normalized(kind, tagged, text, fields) ==
    [kind |-> kind, tagged |-> tagged, text |-> text, fields |-> fields]

Scalar(text) == Normalized("string", FALSE, text, EmptyFields)

hasOwnProperty(obj, prop) == prop \in DOMAIN obj

(* foldInProperties(dest, source): the own properties of source that dest
   does not have are added to dest. *)
foldInProperties(dest, source) ==
    [k \in DOMAIN dest \cup DOMAIN source |->
        IF hasOwnProperty(dest, k) THEN dest[k] ELSE source[k]]

(* The properties of an object besides "@kind". *)
WithoutKind(fields) == [k \in DOMAIN fields \ {Key("@kind")} |-> fields[k]]

(* makeErrorUseful(error) for an error that is not null or undefined; the
   "@kind" of dest keeps an own "@kind" of the error out. *)
makeErrorUseful(error) ==
    Normalized("Error", TRUE, "",
               foldInProperties(
                   (Key("name") :> error.name) @@ (Key("message") :> error.message)
                   @@ (Key("stack") :> error.stack),
                   WithoutKind(error.fields)))

makeUndefinedUseful == Normalized("undefined", TRUE, "", EmptyFields)

(* defaultMetaTransformer(value): whether it threw, what it threw, and the
   value it returned.  An object is copied property by property, so that an
   own "@kind" of it is the "@kind" of the copy. *)
defaultMetaTransformer(value) ==
    CASE value.type = "Error" ->
             [threw |-> FALSE, error |-> RawNull, value |-> makeErrorUseful(value)]
      [] value.type = "undefined" ->
             [threw |-> FALSE, error |-> RawNull, value |-> makeUndefinedUseful]
      [] value.type = "null" ->
             [threw |-> FALSE, error |-> RawNull,
              value |-> Normalized("null", FALSE, "", EmptyFields)]
      [] value.type = "string" ->
             [threw |-> FALSE, error |-> RawNull, value |-> Scalar(value.text)]
      [] OTHER ->
             IF value.thrown # "none"
             THEN [threw |-> TRUE, error |-> ThrownValue(value.thrown),
                   value |-> Normalized("null", FALSE, "", EmptyFields)]
             ELSE [threw |-> FALSE, error |-> RawNull,
                   value |-> IF hasOwnProperty(value.fields, Key("@kind"))
                             THEN Normalized(value.fields[Key("@kind")], TRUE,
                                             "", WithoutKind(value.fields))
                             ELSE Normalized("record", FALSE, "",
                                             value.fields)]

(* The result null of findMetaFieldType. *)
NoType == <<>>

(* findMetaFieldType(value) for a transformed value: hasOwnProperty applied
   to null throws a TypeError; a record with "@kind" gives the tag; a
   string gives its runtime type; an untagged record gives null. *)
findMetaFieldType(value) ==
    CASE value.tagged -> [threw |-> FALSE, type |-> Key(value.kind)]
      [] value.kind = "null" -> [threw |-> TRUE, type |-> NoType]
      [] value.kind = "string" -> [threw |-> FALSE, type |-> Key("string")]
      [] OTHER -> [threw |-> FALSE, type |-> NoType]

RECURSIVE Probe(_, _, _)
(* for (let i = 2; true; i++): the first `${type}${i}` acc does not have. *)
Probe(acc, type, i) ==
    IF ~hasOwnProperty(acc, Suffixed(type, i)) THEN Suffixed(type, i)
    ELSE Probe(acc, type, i + 1)

(* reduceMetas(acc, meta): whether it threw, and acc afterwards. *)
reduceMetas(acc, meta) ==
    LET found == findMetaFieldType(meta)
    IN  IF found.threw THEN [threw |-> TRUE, acc |-> acc]
        ELSE IF found.type # NoType
        THEN [threw |-> FALSE,
              acc |-> IF ~hasOwnProperty(acc, found.type)
                      THEN MapSet(acc, found.type, meta)
                      ELSE MapSet(acc, Probe(acc, found.type, 2), meta)]
        ELSE [threw |-> FALSE,
              acc |-> [k \in DOMAIN acc \cup DOMAIN meta.fields |->
                          IF k \in DOMAIN meta.fields
                          THEN Scalar(meta.fields[k]) ELSE acc[k]]]

(* The catch block of buildMeta: makeErrorUseful destructures the thrown
   value, which throws a TypeError out of buildMeta when the value is null
   or undefined. *)
ContainFailure(combined, error, metas) ==
    IF error.type \in {"null", "undefined"}
    THEN [threw |-> TRUE, failedAt |-> 0, combined |-> combined]
    ELSE [threw |-> FALSE, failedAt |-> 0,
          combined |->
              MapSet(MapSet(combined, Key("error_loggingMetaMiddleware"),
                            makeErrorUseful(error)),
                     Key("error_loggingMetaMiddleware_originalMetas"),
                     [kind |-> "list", tagged |-> FALSE, text |-> "",
                      fields |-> EmptyFields, items |-> metas])]

RECURSIVE BuildLoop(_, _, _)
(* The for loop of buildMeta inside its try block. *)
BuildLoop(metas, i, combined) ==
    IF i > Len(metas)
    THEN [threw |-> FALSE, failedAt |-> 0, combined |-> combined]
    ELSE LET xformedMeta == defaultMetaTransformer(metas[i])
             reduced == reduceMetas(combined, xformedMeta.value)
         IN  IF xformedMeta.threw
             THEN [ContainFailure(combined, xformedMeta.error, metas)
                      EXCEPT !.failedAt = i]
             ELSE IF reduced.threw
             THEN [ContainFailure(combined, NullTypeError, metas)
                      EXCEPT !.failedAt = i]
             ELSE BuildLoop(metas, i + 1, reduced.acc)

(* buildMeta(metas): whether it threw, the index of the argument that
   failed (0 for none), and the record it returned. *)
buildMeta(metas) == BuildLoop(metas, 1, [k \in {} |-> Scalar("")])

(* The metadata values log calls are made with; KindRecord is the plain
   object { "@kind": "Error", name: "n" }, and one more plain object has
   the text of a numbered name for its "@kind". *)
KindRecord == RawRecord((Key("@kind") :> "Error") @@ (Key("name") :> "n"))

ErrorOne == RawError("TestError", "first", (Key("foo") :> "bar"))

ErrorTwo == RawError("RangeError", "second", EmptyFields)

RawValues ==
    {ErrorOne, ErrorTwo, RawRecord((Key("a") :> "1")),
     RawRecord((Key("a") :> "2") @@ (Suffixed(Key("Error"), 2) :> "taken")),
     KindRecord, RawRecord((Key("@kind") :> "Error2")),
     RawString("text"), RawNull, RawUndefined,
     RawPoison("Error"), RawPoison("null")}

(* The most metadata arguments of one call. *)
MaxMetas == 3

RECURSIVE SeqsUpTo(_, _)
(* The sequences over S of length at most n. *)
SeqsUpTo(S, n) ==
    IF n = 0 THEN {<<>>}
    ELSE LET shorter == SeqsUpTo(S, n - 1)
         IN  shorter \cup {Append(q, x) : q \in shorter, x \in S}

InitMeta ==
    /\ currentKey = NullKey
    /\ handles = {}
    /\ configurators = (ROOT :> DEFAULT_ROOT_CONFIGURATOR)
    /\ implementationMap = emptyMap
    /\ knownImplementations = emptyTree
    /\ defaultLists = initialLists
    /\ received = <<>>
    /\ pending = 0
    /\ globalSlot = UndefinedSlot
    /\ clientImpl = NullImpl
    /\ \E metas \in SeqsUpTo(RawValues, MaxMetas) :
           call = [op |-> "init", metas |-> metas]
    /\ ret = [acquired |-> FALSE]

(* buildMeta(metas) for the metadata list of the call at hand. *)
BuildMeta ==
    /\ call.op = "init"
    /\ call' = [op |-> "buildMeta", metas |-> call.metas]
    /\ ret' = buildMeta(call.metas)
    /\ UNCHANGED <<packageVars, currentKey, handles, configVars, deliveryVars>>

NextMeta == BuildMeta

SpecMeta == InitMeta /\ [][NextMeta]_vars

(* ------------------------------------------------------------------ *)
(* Legacy engine: registration and records                              *)
(* ------------------------------------------------------------------ *)
RegistrationIds == {"id1", "id2"}

(* A registration ID and a name that Object.prototype has properties of. *)
InheritedId == "toString"

InheritedName == <<"constructor">>

LegacyNames == {<<"lib">>, <<"app">>}

(* masterConfig without a record callback, and with one of two. *)
MasterConfigs == {[record |-> r] : r \in {"none", "cb1", "cb2"}}

SubNames == {NullSubName, SubName(<<"db">>)}

(* The name argument of a record call: absolute-append and relative. *)
RecordNames == {<<Slash, "hits">>, <<"hits">>}

(* What only the legacy engine and the client wrapper leave alone. *)
engineVars ==
    <<currentKey, handles, configurators, implementationMap,
      knownImplementations, defaultLists, received, pending>>

(* register(registrationId, name, masterConfig) *)
Register(registrationId, name, masterConfig) ==
    \E done \in {register(globalSlot, registrationId, name, masterConfig)} :
      /\ globalSlot' = done.slot
      /\ call' = [op |-> "register", id |-> registrationId, name |-> name,
                  masterConfig |-> masterConfig]
      /\ ret' = [threw |-> done.threw]
      /\ UNCHANGED <<engineVars, clientImpl>>

(* registration.getLogger(subName) on the handle register returned for
   rootName. *)
LegacyGetLogger(rootName, subName) ==
    /\ rootName \in DOMAIN globalSlot.byName
    /\ \E got \in {legacyGetLogger(globalSlot, rootName, subName)} :
         /\ globalSlot' = got.slot
         /\ call' = [op |-> "legacyGetLogger", name |-> rootName,
                     subName |-> subName]
         /\ ret' = [backend |-> got.backend]
    /\ UNCHANGED <<engineVars, clientImpl>>

(* backend.record(type, name, data) on the backend cached for fullName:
   getCore().record(type, rootName, fullName, name, data). *)
BackendRecord(fullName, type, name, data) ==
    /\ fullName \in DOMAIN globalSlot.backends
    /\ call' = [op |-> "record", fullName |-> fullName, type |-> type,
                name |-> name, data |-> data]
    /\ ret' = coreRecord(globalSlot.core, type,
                         globalSlot.backends[fullName].rootName,
                         globalSlot.backends[fullName].fullName, name, data)
    /\ UNCHANGED <<engineVars, packageVars>>

(* The compatibility versions of other copies of the library. *)
ForeignVersions == {0, 2}

(* register(registrationId, name, masterConfig) of a copy of the library
   with another compatibility version: the copy that runs first defines
   the shared record and registers itself in it. *)
ForeignRegister(version, registrationId, name, masterConfig) ==
    \E done \in {registerAs(version, globalSlot, registrationId, name,
                            masterConfig)} :
      /\ globalSlot' = done.slot
      /\ call' = [op |-> "foreignRegister", version |-> version,
                  id |-> registrationId, name |-> name,
                  masterConfig |-> masterConfig]
      /\ ret' = [threw |-> done.threw]
      /\ UNCHANGED <<engineVars, clientImpl>>

(* A method of the LoggingInterface getLogger returned for fullName. *)
InterfaceCall(fullName, method, name, level, data) ==
    /\ fullName \in DOMAIN globalSlot.backends
    /\ call' = [op |-> "interface", fullName |-> fullName,
                method |-> method, name |-> name, level |-> level,
                data |-> data]
    /\ ret' = LoggingInterfaceCall(globalSlot.core,
                                   globalSlot.backends[fullName], method,
                                   name, level, data)
    /\ UNCHANGED <<engineVars, packageVars>>

NextLegacy ==
    \/ \E id \in RegistrationIds, n \in LegacyNames, m \in MasterConfigs :
           Register(id, n, m)
    \/ \E m \in MasterConfigs :
           \/ Register(InheritedId, <<"lib">>, m)
           \/ \E id \in RegistrationIds : Register(id, InheritedName, m)
    \/ \E n \in LegacyNames, sub \in SubNames : LegacyGetLogger(n, sub)
    \/ \E f \in DOMAIN globalSlot.backends, n \in RecordNames :
           BackendRecord(f, "event", n, "data")
    \/ \E f \in DOMAIN globalSlot.backends,
          method \in {"event", "set", "log"} :
           InterfaceCall(f, method, <<"hits">>, "info", "data")
    \/ \E v \in ForeignVersions, n \in {<<"other">>, InheritedName} :
           ForeignRegister(v, "idF", n, [record |-> "none"])

SpecLegacy == Init /\ [][NextLegacy]_vars

(* ------------------------------------------------------------------ *)
(* A throw in one branch of a fan-out                                   *)
(* ------------------------------------------------------------------ *)
BranchLists ==
    {<<Fan, ThrowsFor(NameX), Pass>>, <<Fan, ThrowsFor(NameY)>>,
     <<Fan, Thrower>>, <<Pass, ThrowsFor(NameX)>>}

BranchConfigurators == {PipelineOn("recorder", "mws", mws) : mws \in BranchLists}

NextBranches ==
    \/ handles = {} /\ Lock
    \/ \E c \in BranchConfigurators :
           \E h \in handles : SetConfigurator(h, NameA, c)
    \/ \E h \in handles : ResetConfig(h)
    \/ \E m \in Messages : LogCall(NameAB, m, CallMetas)

SpecBranches == Init /\ [][NextBranches]_vars

(* ------------------------------------------------------------------ *)
(* Entries that carry the name of another configured logger             *)
(* ------------------------------------------------------------------ *)
(* The names middleware hands to next and the name of quarantine entries
   have configurations of their own: enabled with another receiver, or
   disabled. *)
RoutingTargets == {NameX, EXTERNAL_ERROR_LOGGER_NAME}

NextRouting ==
    \/ handles = {} /\ Lock
    \/ \E mws \in {<<Fan>>, <<Thrower>>, <<Fan, ThrowsFor(NameY)>>} :
           \E h \in handles :
               SetConfigurator(h, NameA, PipelineOn("recorder", "mws", mws))
    \/ \E n \in RoutingTargets,
          c \in {PipelineOn("spy", "mws", <<Drop>>), Decorate("t1")} :
           \E h \in handles : SetConfigurator(h, n, c)
    \/ \E n \in {NameA, NameX} : LogCall(n, "m1", CallMetas)

SpecRouting == Init /\ [][NextRouting]_vars

(* ------------------------------------------------------------------ *)
(* Decorations and the metadata of the call                             *)
(* ------------------------------------------------------------------ *)
(* The metadata arguments of the log calls: none, one that has the key of
   the decorations, one that has another key, and two with the same key. *)
MetaLists ==
    {<<>>, <<PlainMeta("own")>>, <<[other |-> "own"]>>,
     <<PlainMeta("own"), PlainMeta("last")>>}

(* "a" gets a receiver and a middleware list, "a/b" its decorations. *)
NextEntry ==
    \/ handles = {} /\ Lock
    \/ \E mws \in {<<Pass>>, <<Fan>>} :
           \E h \in handles : SetConfigurator(h, NameA, PipelineOn("spy", "mws", mws))
    \/ \E c \in {Decorate(t) : t \in Tags} \cup {Appender("t1")} :
           \E h \in handles : SetConfigurator(h, NameAB, c)
    \/ \E h \in handles : ResetConfig(h)
    \/ \E metas \in MetaLists : LogCall(NameAB, "m1", metas)

SpecEntry == Init /\ [][NextEntry]_vars

(* ------------------------------------------------------------------ *)
(* Client wrapper                                                       *)
(* ------------------------------------------------------------------ *)
(* The engine's getLogger(...loggerNames), logging.ts: the function it
   returns logs under buildLoggerName of the names. *)
engineGetLogger(loggerNames) ==
    [noop |-> FALSE, loggerName |-> buildLoggerName(loggerNames)]

(* const noopLogger = (message, ...metas) => {} *)
noopLogger == [noop |-> TRUE, loggerName |-> NoName]

(* The client wrapper's getLogger(...loggerNames): importCore(), then
   impl(...loggerNames), which throws a TypeError (impl is not a function)
   when impl is null or undefined.  outcome is what require would do
   now. *)
ClientGetLogger(loggerNames, outcome) ==
    \E imported \in {importCore(clientImpl, outcome)} :
      /\ clientImpl' = imported.impl
      /\ call' = [op |-> "clientGetLogger", loggerNames |-> loggerNames,
                  outcome |-> outcome]
      /\ ret' = IF imported.impl \in {NullImpl, UndefinedImpl}
                THEN [required |-> imported.required, threw |-> "TypeError"]
                ELSE [required |-> imported.required, threw |-> "none",
                      logger |-> IF imported.impl = EngineGetLogger
                                 THEN engineGetLogger(loggerNames)
                                 ELSE noopLogger]
      /\ UNCHANGED <<engineVars, globalSlot>>

(* A call of the function the engine's getLogger returned. *)
EngineLoggerCall(loggerName) ==
    /\ clientImpl = EngineGetLogger
    /\ Log(loggerName)

(* A call of noopLogger. *)
NoopLoggerCall ==
    /\ clientImpl = getNoopLogger
    /\ call' = [op |-> "noopLogger"]
    /\ ret' = [threw |-> "none"]
    /\ UNCHANGED <<engineVars, packageVars>>

NextClient ==
    \/ handles = {} /\ Lock
    \/ \E n \in LockNames, outcome \in RequireOutcomes :
           ClientGetLogger(<<n>>, outcome)
    \/ \E n \in LockNames, c \in UserConfigurators :
           \E h \in handles : SetConfigurator(h, n, c)
    \/ \E n \in LockNames : EngineLoggerCall(n)
    \/ NoopLoggerCall

SpecClient == Init /\ [][NextClient]_vars

(* ------------------------------------------------------------------ *)
(* Properties of the locking authority                                  *)
(* ------------------------------------------------------------------ *)
Mutators == {"setConfigurator", "setRootConfigurator", "resetConfig"}

(* The keys of the handles lock() has handed out. *)
MintedKeys == {h.key : h \in {x \in handles : x.acquired}}

(* Whether P is N or a prefix of N that ends where a "/" of N begins. *)
IsSegmentPrefix(P, N) ==
    \/ P = N
    \/ /\ Len(P) < Len(N)
       /\ SubSeq(N, 1, Len(P)) = P
       /\ N[Len(P) + 1] = Slash

(* What a log call for name n delivers when made with the given registry,
   cache and presence tree. *)
LogOutcome(registry, map, tree, n) ==
    Invoke(IF n \in DOMAIN map THEN map[n]
           ELSE buildImplementation(registry, n).impl,
           "message", CallMetas)

(* The effect of a mutation call that passes the key check. *)
TakesEffect ==
    /\ call'.op = "setConfigurator" =>
         /\ configurators' = MapSet(configurators, call'.name,
                                    wrapConfigurator(call'.configurator))
         /\ \A n \in LockNames : IsSegmentPrefix(call'.name, n) =>
              /\ n \notin DOMAIN implementationMap'
              /\ \E i \in DOMAIN getConfig(configurators', n).applied :
                     getConfig(configurators', n).applied[i] = call'.name
              /\ LogOutcome(configurators', implementationMap',
                            knownImplementations', n) =
                   Invoke(buildImplementation(configurators', n).impl,
                          "message", CallMetas)
    /\ call'.op = "setRootConfigurator" =>
         /\ configurators' = MapSet(configurators, ROOT,
                                    wrapConfigurator(call'.configurator))
         /\ implementationMap' = emptyMap
         /\ knownImplementations' = emptyTree
    /\ call'.op = "resetConfig" =>
         /\ configurators' = (ROOT :> DEFAULT_ROOT_CONFIGURATOR)
         /\ implementationMap' = emptyMap
         /\ knownImplementations' = emptyTree

(* C1: at most one lock token is outstanding.  A lock() call made while a
   token is outstanding returns the handle with acquired = false and leaves
   the outstanding token as it is; a lock() call made while none is
   outstanding mints a key no earlier handle carries and records it. *)
C1_AtMostOneToken ==
    [][call'.op = "lock" =>
         IF currentKey # NullKey
         THEN /\ ret' = DummyHandle
              /\ ~ret'.acquired
              /\ currentKey' = currentKey
         ELSE /\ ret'.acquired
              /\ ret'.key \notin MintedKeys \cup {NullKey}
              /\ currentKey' = ret'.key]_vars

(* A lock() call failed while key 2 was outstanding, key 1 released. *)
C1_Witness ==
    /\ call.op = "lock"
    /\ ret = DummyHandle
    /\ currentKey = 2

(* C2: while a token is outstanding, setConfigurator, setRootConfigurator
   and resetConfig called without it (module-level call, dummy handle, or
   handle of a released token) change neither the registry, the cache nor
   the presence tree, and what a log call delivers stays the same. *)
C2_UnauthorizedMutationIsNoop ==
    [][(/\ currentKey # NullKey
        /\ call'.op \in Mutators
        /\ call'.caller # KeyHandle(currentKey))
       => /\ UNCHANGED configVars
          /\ \A n \in LockNames :
                LogOutcome(configurators', implementationMap',
                           knownImplementations', n)
                = LogOutcome(configurators, implementationMap,
                             knownImplementations, n)]_vars

(* A released handle called setConfigurator for a configured, cached name
   while another token was outstanding. *)
C2_Witness ==
    /\ currentKey = 2
    /\ call.op = "setConfigurator"
    /\ call.caller = KeyHandle(1)
    /\ call.name \in DOMAIN configurators
    /\ call.name \in DOMAIN implementationMap
    /\ configurators[call.name] # wrapConfigurator(call.configurator)

(* C3: while a token is outstanding, unlock called without it (module-level
   call with null, dummy handle, or handle of a released token) leaves it
   outstanding, so the null key remains unauthorized. *)
C3_OnlyHolderUnlocks ==
    [][(/\ currentKey # NullKey
        /\ call'.op = "unlock"
        /\ call'.caller # KeyHandle(currentKey))
       => /\ currentKey' = currentKey
          /\ ~(isKey(NullKey))']_vars

(* The released handle of key 1 called unlock while key 2 was outstanding. *)
C3_Witness ==
    /\ currentKey = 2
    /\ call.op = "unlock"
    /\ call.caller = KeyHandle(1)

(* C4: while a token is outstanding, setConfigurator, setRootConfigurator
   and resetConfig called through its handle take effect: the wrapped
   configurator is stored (or the registry reset), the affected names are
   evicted and resolve with the new registry. *)
C4_HolderMutationTakesEffect ==
    [][(/\ currentKey # NullKey
        /\ call'.op \in Mutators
        /\ call'.caller = KeyHandle(currentKey))
       => TakesEffect]_vars

(* The holder replaced the configurator of a name through its handle. *)
C4_Witness ==
    /\ currentKey # NullKey
    /\ call.op = "setConfigurator"
    /\ call.caller = KeyHandle(currentKey)
    /\ configurators[call.name] = wrapConfigurator(call.configurator)

(* C5: whenever no token is outstanding, setConfigurator,
   setRootConfigurator and resetConfig called without a token, through the
   functions the module exports, take effect, and a lock() call acquires a
   token; the holder's unlock() brings that state back. *)
C5_AmbientAuthority ==
    [][/\ (currentKey = NullKey /\ call'.op \in Mutators
           /\ call'.caller = Module) => TakesEffect
       /\ (currentKey = NullKey /\ call'.op = "lock")
            => (ret'.acquired /\ currentKey' = ret'.key
                /\ currentKey' # NullKey)
       /\ (currentKey # NullKey /\ call'.op = "unlock"
           /\ call'.caller = KeyHandle(currentKey))
            => currentKey' = NullKey]_vars

(* ------------------------------------------------------------------ *)
(* Properties of the implementation cache                               *)
(* ------------------------------------------------------------------ *)
(* C6: cache coherence.  A log call delivers what the configuration
   resolved from the current registry delivers, and registering a
   configurator at P (or at the Root) leaves no implementation cached for
   P or a name beneath P (or for any name). *)
C6_CacheCoherence ==
    [][/\ call'.op = "log" =>
            ret'.delivered =
              Invoke(buildImplementation(configurators, call'.name).impl,
                     "message", CallMetas)
       /\ call'.op = "setConfigurator" =>
            \A n \in Names : IsSegmentPrefix(call'.name, n) =>
                               n \notin DOMAIN implementationMap'
       /\ call'.op = "setRootConfigurator" =>
            implementationMap' = emptyMap]_vars

(* A log call for "a/b" built a new implementation after the configurator
   of "a" was set while one was cached for "a/b": the node of "a/b" already
   existed, and the delivery carries the decorations of "a" and "a/b". *)
C6_Witness ==
    /\ call.op = "log"
    /\ call.name = NameAB
    /\ ret.built
    /\ ~ret.impl.noop
    /\ Len(ret.impl.config.decorations) = 3
    /\ NameA \in DOMAIN implementationMap

(* C7: invalidation is exact.  setConfigurator(P, c) evicts the cached
   implementations of P and of the names that have P as a segment prefix,
   and leaves every other cached implementation in place. *)
C7_ExactInvalidation ==
    [][call'.op = "setConfigurator" =>
         implementationMap' =
           [n \in {m \in DOMAIN implementationMap :
                      ~IsSegmentPrefix(call'.name, m)}
              |-> implementationMap[n]]]_vars

(* setConfigurator("a/b", c) ran when "a/b" had been cached: its node exists
   with the flag cleared, and parent, sibling and "ab" are still cached. *)
C7_Witness ==
    /\ call.op = "setConfigurator"
    /\ call.name = NameAB
    /\ <<<<"a">>, <<"b">>>> \in DOMAIN knownImplementations
    /\ ~knownImplementations[<<<<"a">>, <<"b">>>>]
    /\ DOMAIN implementationMap = {NameA, NameAC, NameAb}

(* C8: a resolution stores the implementation it returns; resolving a name
   that is cached returns the cached implementation without applying any
   configurator and changes nothing, so the second of two successive log
   calls for one name gets the implementation the first one got. *)
C8_SameImplementationTwice ==
    [][call'.op = "log" =>
         /\ implementationMap'[call'.name] = ret'.impl
         /\ call'.name \in DOMAIN implementationMap =>
              /\ ret'.impl = implementationMap[call'.name]
              /\ ~ret'.built
              /\ ret'.applied = <<>>
              /\ UNCHANGED configVars
         /\ (call.op = "log" /\ call.name = call'.name) =>
              (ret'.impl = ret.impl /\ ~ret'.built)]_vars

(* A log call found an enabled implementation in the cache. *)
C8_Witness ==
    /\ call.op = "log"
    /\ ~ret.built
    /\ ~ret.impl.noop
    /\ ret.impl = implementationMap[call.name]

(* ------------------------------------------------------------------ *)
(* Properties of the resolution                                         *)
(* ------------------------------------------------------------------ *)
RECURSIVE PrefixesFrom(_, _)
(* The leading substrings of N that end at the end of N or before a "/",
   of length at least i, shortest first. *)
PrefixesFrom(N, i) ==
    IF i > Len(N) THEN <<>>
    ELSE IF i = Len(N) \/ N[i + 1] = Slash
         THEN <<SubSeq(N, 1, i)>> \o PrefixesFrom(N, i + 1)
         ELSE PrefixesFrom(N, i + 1)

RECURSIVE Registered(_, _)
(* The keys of the sequence that have a configurator, in order. *)
Registered(registry, keys) ==
    IF keys = <<>> THEN <<>>
    ELSE (IF Truthy(MapGet(registry, Head(keys))) THEN <<Head(keys)>> ELSE <<>>)
         \o Registered(registry, Tail(keys))

(* Root first, then the prefix paths, shortest to longest. *)
ExpectedKeys(registry, N) ==
    Registered(registry, <<ROOT>> \o PrefixesFrom(N, 1))

RECURSIVE ApplyInOrder(_, _, _)
(* Apply the configurators registered at the keys one after the other. *)
ApplyInOrder(registry, keys, cfg) ==
    IF keys = <<>> THEN cfg
    ELSE ApplyInOrder(registry, Tail(keys),
                      ApplyConfigurator(registry[Head(keys)], cfg,
                                        initialLists))

RECURSIVE ApplyInOrderDefaulting(_, _, _)
(* The same, but a configuration that has no own "enabled" gets
   enabled = true before the configurator of a path is applied. *)
ApplyInOrderDefaulting(registry, keys, cfg) ==
    IF keys = <<>> THEN cfg
    ELSE LET start == IF Head(keys) # ROOT /\ ~cfg.hasEnabled
                      THEN [cfg EXCEPT !.hasEnabled = TRUE, !.enabled = TRUE]
                      ELSE cfg
         IN  ApplyInOrderDefaulting(registry, Tail(keys),
                 ApplyConfigurator(registry[Head(keys)], start,
                                   initialLists))

(* C9 as stated: the effective configuration is the default configuration
   with the Root configurator applied first, if registered, and then the
   configurators of the prefix paths, shortest to longest. *)
C9_Original ==
    call.op = "getConfig" =>
      /\ ret.applied = ExpectedKeys(configurators, call.name)
      /\ ret.config = ApplyInOrder(configurators,
                                   ExpectedKeys(configurators, call.name),
                                   defaultConfig)

(* C9: the effective configuration is the default configuration with the
   Root configurator applied first, if registered, and then the
   configurators of the prefix paths, shortest to longest, where before
   each path's configurator is applied a configuration without an own
   "enabled" property gets enabled = true. *)
C9_ResolutionOrder ==
    call.op = "getConfig" =>
      /\ ret.applied = ExpectedKeys(configurators, call.name)
      /\ ret.config = ApplyInOrderDefaulting(configurators,
                                   ExpectedKeys(configurators, call.name),
                                   defaultConfig)

(* "a/b/c" was resolved with configurators at the Root and at all three of
   its prefix paths, the Root's removing "enabled". *)
C9_Witness ==
    /\ call.op = "getConfig"
    /\ call.name = NameABC
    /\ ret.applied = <<ROOT, NameA, NameAB, NameABC>>
    /\ configurators[ROOT] = wrapConfigurator(DeleteEnabled)
    /\ ret.config.enabled

(* C10: a configurator registered at P affects the resolution of N only if
   P is a segment prefix of N: without the configurator of any other path
   the resolution of N is the same. *)
C10_OnlySegmentPrefixesApply ==
    call.op = "getConfig" =>
      \A P \in DOMAIN configurators \ {ROOT} :
          ~IsSegmentPrefix(P, call.name) =>
              getConfig(MapDelete(configurators, P), call.name) = ret

(* "ab" and "a/c" were resolved while "a" and "a/b" had configurators. *)
C10_Witness ==
    /\ call.op = "getConfig"
    /\ call.name = NameAb
    /\ {NameA, NameAB, NameAC} \subseteq DOMAIN configurators
    /\ NameAb \notin DOMAIN configurators
    /\ ret.applied = <<ROOT>>

(* ------------------------------------------------------------------ *)
(* Properties of enabling and of the default configuration              *)
(* ------------------------------------------------------------------ *)
(* C11: while the registry holds nothing but the identity Root
   configurator, a log call for any name calls no middleware and no
   receiver, leaves what the receivers hold as it is, and throws nothing. *)
C11_DefaultDisabled ==
    [][(call'.op = "log"
        /\ configurators = (ROOT :> DEFAULT_ROOT_CONFIGURATOR))
       => /\ ret'.impl = NoopImplementation
          /\ ret'.calls = <<>>
          /\ ret'.delivered = <<>>
          /\ ret'.threw = "none"
          /\ received' = received
          /\ pending' = pending]_vars

(* A log call built the implementation of a name after resetConfig, when
   an appender had extended the decorations of defaultConfig. *)
C11_Witness ==
    /\ call.op = "log"
    /\ ret.built
    /\ configurators = (ROOT :> DEFAULT_ROOT_CONFIGURATOR)
    /\ defaultLists.decorations # <<>>
    /\ ret.delivered = <<>>

(* Whether the configurator assigns the property "enabled". *)
SetsEnabled(c) == c.kind \in {"configure", "enable", "pipeline", "enableAppend"}

(* C12: when a configurator of a prefix path applies and no applied
   configurator sets "enabled", the resolved configuration is enabled and a
   log call makes one delivery; when only the Root configurator applies and
   it does not set "enabled", the configuration is disabled. *)
C12_EnabledByDefault ==
    call.op = "getConfig" =>
      LET pathApplies == \E i \in DOMAIN ret.applied : ret.applied[i] # ROOT
          enabledSet == \E i \in DOMAIN ret.applied :
                            SetsEnabled(configurators[ret.applied[i]])
          impl == buildImplementation(configurators, call.name).impl
      IN  /\ (pathApplies /\ ~enabledSet) =>
                /\ ret.config.enabled
                /\ Len(Invoke(impl, "message", CallMetas)) = 1
          /\ (~pathApplies /\ ~enabledSet) => ~ret.config.enabled

(* C13: after resetConfig has run with authority the registry holds only
   the identity Root configurator, the cache and the presence tree are
   empty, and every name resolves to the default configuration: disabled,
   no decorations, no middleware. *)
C13_ResetRestoresInitial ==
    call.op = "resetConfig" =>
      /\ configurators = (ROOT :> DEFAULT_ROOT_CONFIGURATOR)
      /\ implementationMap = emptyMap
      /\ knownImplementations = emptyTree
      /\ \A n \in Names :
            LET config == getConfig(configurators, n).config
            IN  /\ ~config.enabled
                /\ config.decorations = <<>>
                /\ config.middleware = <<>>

(* ------------------------------------------------------------------ *)
(* Properties of middleware and delivery                                *)
(* ------------------------------------------------------------------ *)
(* The one receiver call that hands the entry of the log call to the
   receiver of the implementation under the name of the logger. *)
OwnDelivery(impl, name, message) ==
    [receiver |-> impl.config.receiver, loggerName |-> name,
     message |-> message,
     metas |-> ListOf(impl.config, "decorations", defaultLists)
               \o CallMetas]

(* C14: a log call of an enabled logger whose middleware list is empty
   makes exactly one receiver call, with the entry of the log call under
   the name of the logger. *)
C14_EmptyMiddlewareDeliversOnce ==
    (/\ call.op = "log"
     /\ ~ret.impl.noop
     /\ ListOf(ret.impl.config, "middleware", defaultLists) = <<>>)
    => ret.delivered = <<OwnDelivery(ret.impl, call.name, call.message)>>

(* The entry a log call hands to the first middleware. *)
FirstEntry(impl, message) ==
    [message |-> message,
     metas |-> ListOf(impl.config, "decorations", defaultLists) \o CallMetas]

(* C15: when the one middleware function that runs last in a log call
   throws, after the calls of next it made, the log call throws nothing and
   makes exactly one receiver call: to the receiver of the logger, under
   the name @loglow/external/errors, with the message "An error occurred in
   middleware" and one metadata value holding the error, the entry the
   middleware was given and the middleware.  Nothing it passed to next is
   delivered. *)
C15_ThrowIsQuarantined ==
    (/\ call.op = "log"
     /\ ~ret.impl.noop
     /\ ListOf(ret.impl.config, "middleware", defaultLists) # <<>>
     /\ ret.calls[Len(ret.calls)].middleware.throws)
    => LET failed == ret.calls[Len(ret.calls)]
       IN  /\ ret.threw = "none"
           /\ failed.entry = FirstEntry(ret.impl, call.message)
           /\ ret.delivered =
                <<[receiver |-> ret.impl.config.receiver,
                   loggerName |-> <<"@loglow", "/", "external", "/", "errors">>,
                   message |-> "An error occurred in middleware",
                   metas |-> <<[error |-> "MiddlewareError",
                                entry |-> failed.entry,
                                middleware |-> failed.middleware]>>]>>

(* The second middleware of a list threw after it had called next; the
   recorder holds the quarantine entry and nothing else. *)
C15_Witness ==
    /\ call.op = "log"
    /\ Len(ret.calls) = 2
    /\ ret.calls[2].middleware = Thrower
    /\ ret.threw = "none"
    /\ Len(ret.delivered) = 1
    /\ received = ret.delivered

RECURSIVE Forwarded(_, _, _)
(* What one middleware passes to next for each of the pairs, pair after
   pair, each pair's calls of next in the order they were made. *)
Forwarded(pairs, i, xform) ==
    IF i > Len(pairs) THEN <<>>
    ELSE [k \in 1..Len(xform.emits) |->
             [loggerName |-> IF xform.emits[k] = NoName
                             THEN pairs[i].loggerName ELSE xform.emits[k],
              entry |-> pairs[i].entry]]
         \o Forwarded(pairs, i + 1, xform)

RECURSIVE Stagewise(_, _, _)
(* The pairs that leave the last middleware when the whole list of pairs
   goes through one middleware after the other. *)
Stagewise(pairs, middlewares, i) ==
    IF i > Len(middlewares) THEN pairs
    ELSE Stagewise(Forwarded(pairs, 1, middlewares[i]), middlewares, i + 1)

(* C16: when no middleware of a logger throws, the receiver calls of a log
   call are, in order, the pairs the middleware passed to next, every
   middleware's calls of next in the order it made them and the results
   for an earlier pair before those for a later pair; a single middleware
   that calls next with "x" and then with "y" yields two receiver calls, the
   first under "x" and the second under "y". *)
C16_FanOutPreservesOrder ==
    (/\ call.op = "log"
     /\ ~ret.impl.noop
     /\ ret.threw = "none"
     /\ ListOf(ret.impl.config, "middleware", defaultLists) # <<>>
     /\ \A i \in DOMAIN ret.impl.config.middleware :
           ~ret.impl.config.middleware[i].throws)
    => LET middlewares == ListOf(ret.impl.config, "middleware", defaultLists)
           entry == FirstEntry(ret.impl, call.message)
           pairs == Stagewise(<<[loggerName |-> call.name, entry |-> entry]>>,
                              middlewares, 1)
       IN  /\ ret.delivered =
                [k \in 1..Len(pairs) |->
                    [receiver |-> ret.impl.config.receiver,
                     loggerName |-> pairs[k].loggerName,
                     message |-> pairs[k].entry.message,
                     metas |-> pairs[k].entry.metas]]
           /\ middlewares = <<Fan>> =>
                /\ Len(ret.delivered) = 2
                /\ ret.delivered[1].loggerName = NameX
                /\ ret.delivered[2].loggerName = NameY
                /\ ret.delivered[1].message = call.message
                /\ ret.delivered[2].message = call.message

(* A log call went through a middleware that called next twice and then,
   for each of the two pairs, through a second middleware. *)
C16_Witness ==
    /\ call.op = "log"
    /\ Len(ret.calls) = 3
    /\ ret.calls[1].middleware = Fan
    /\ Len(ret.delivered) = 2
    /\ ret.delivered[1].loggerName = NameX
    /\ ret.delivered[2].loggerName = NameY
    /\ received = ret.delivered

(* C17: when a middleware returns without a call of next, the entry goes no
   further: no middleware after it is called and no receiver call is made,
   so the receivers hold what they held before the log call. *)
C17_NoNextDropsEntry ==
    [][(/\ call'.op = "log"
        /\ ~ret'.impl.noop
        /\ Len(ret'.impl.config.middleware) > 0
        /\ ret'.impl.config.middleware[1].emits = <<>>
        /\ ~ret'.impl.config.middleware[1].throws)
       => /\ Len(ret'.calls) = 1
          /\ ret'.calls[1].middleware = ret'.impl.config.middleware[1]
          /\ ret'.delivered = <<>>
          /\ ret'.threw = "none"
          /\ received' = received]_vars

(* A log call ended in a middleware that never called next, with another
   middleware behind it, when the recorder held an earlier entry. *)
C17_Witness ==
    /\ call.op = "log"
    /\ ~ret.impl.noop
    /\ ret.impl.config.middleware = <<Drop, Pass>>
    /\ Len(ret.calls) = 1
    /\ ret.delivered = <<>>
    /\ Len(received) > 0

(* C18: a call of next made after the middleware it was handed to has
   returned throws an error and leads to no receiver call. *)
C18_LateNextThrows ==
    call.op = "lateNext" =>
      /\ ret.threw # "none"
      /\ ret.delivered = <<>>

(* C19: a receiver that returns a future is not called again while a
   future it returned earlier is unsettled. *)
C19_ReceiverCallsQueueBehindFuture ==
    call.op = "log" =>
      \A i \in DOMAIN ret.delivered :
          ret.delivered[i].receiver = "async" => ret.outstanding[i] = 0

(* C20: the receiver calls a log call leads to are all made, in the order
   of the invocations, before the log call returns, after every receiver
   call of the log calls before it: what the recorder holds is extended by
   them and nothing else changes in it. *)
C20_DeliveredInCallOrder ==
    [][(call'.op = "log" /\ ret'.threw = "none")
       => /\ ret'.delivered =
               InvokeWith(ret'.impl, call'.message, CallMetas, defaultLists')
          /\ received' = received \o ret'.delivered]_vars

(* The recorder holds the entry of a log call with message "m1" and, after
   it, the two entries a log call with message "m2" fanned out into. *)
C20_Witness ==
    /\ call.op = "log"
    /\ call.message = "m2"
    /\ Len(ret.delivered) = 2
    /\ Len(received) = 3
    /\ received[1].message = "m1"
    /\ received[2].message = "m2"
    /\ received[2].loggerName = NameX
    /\ received[3].loggerName = NameY

(* The keys applicable to N at which the registry holds a configurator
   that throws. *)
ThrowingKeys(registry, N) ==
    {k \in {ROOT} \cup {getConfigPaths(N)[i] : i \in DOMAIN getConfigPaths(N)} :
        MapGet(registry, k).kind = "throw"}

(* Whether the tree has a node for N with the flag set. *)
MarkedPresent(tree, N) ==
    /\ splitLoggerName(N) \in DOMAIN tree
    /\ tree[splitLoggerName(N)]

(* C21: whenever log is called for a name N while a configurator applicable
   to N throws, the caller gets the error of such a configurator with its
   message and own properties, no receiver is called, cache and presence
   tree stay as they were, and N is neither cached nor marked present, so
   the next log call for N resolves and fails again. *)
C21_ConfiguratorErrorPropagates ==
    [][(call'.op = "log" /\ ThrowingKeys(configurators, call'.name) # {})
       => /\ ret'.threw = "ConfiguratorError"
          /\ ret'.built
          /\ \E k \in ThrowingKeys(configurators, call'.name) :
                 /\ ret'.error.message = configurators[k].error.message
                 /\ ret'.error.own = configurators[k].error.own
          /\ ret'.delivered = <<>>
          /\ received' = received
          /\ implementationMap' = implementationMap
          /\ knownImplementations' = knownImplementations
          /\ call'.name \notin DOMAIN implementationMap'
          /\ ~MarkedPresent(knownImplementations', call'.name)]_vars

(* The tags of the addDecorator configurators the registry holds at the
   keys applicable to N. *)
DecoratorTags(registry, N) ==
    {MapGet(registry, k).tag :
        k \in {j \in {ROOT} \cup {getConfigPaths(N)[i] :
                                      i \in DOMAIN getConfigPaths(N)} :
                 MapGet(registry, j).kind \in {"addDecorator",
                                               "enableDecorated"}}}

(* The elements of a sequence. *)
Elements(seq) == {seq[i] : i \in DOMAIN seq}

(* C22: a log call of an enabled logger at or below names configured with
   addDecorator delivers an entry, and every entry it delivers carries the
   metadata of each of these decorators and the metadata of the call. *)
C22_DecoratorsContribute ==
    (call.op = "log" /\ ~ret.impl.noop
       /\ DecoratorTags(configurators, call.name) # {})
    => /\ Len(ret.delivered) > 0
       /\ \A i \in DOMAIN ret.delivered :
              /\ \A t \in DecoratorTags(configurators, call.name) :
                     PlainMeta(t) \in Elements(ret.delivered[i].metas)
              /\ Elements(CallMetas) \subseteq Elements(ret.delivered[i].metas)

(* The error values of a metadata list, in argument order. *)
ErrorsOf(metas) == SelectSeq(metas, LAMBDA v : v.type = "Error")

(* The key the claim gives to the j-th value of a kind. *)
NumberedKey(name, j) ==
    IF j = 1 THEN Key(name) ELSE Suffixed(Key(name), j)

(* C23: when buildMeta has processed a whole metadata list, the j-th error
   value of the list, normalized, is the value of the key "error" for j = 1
   and of "error<j>" for j > 1. *)
C23_ErrorsAtNumberedKeys ==
    (call.op = "buildMeta" /\ ~ret.threw /\ ret.failedAt = 0)
    => \A j \in DOMAIN ErrorsOf(call.metas) :
          /\ hasOwnProperty(ret.combined, NumberedKey("error", j))
          /\ ret.combined[NumberedKey("error", j)]
                = makeErrorUseful(ErrorsOf(call.metas)[j])

(* What buildMeta is to return when the argument at index i failed with
   the error: the fields merged from the arguments before it, the
   normalized failure and the original list. *)
Contained(metas, i, result) ==
    LET before == buildMeta(SubSeq(metas, 1, i - 1)).combined
        failure == Key("error_loggingMetaMiddleware")
        original == Key("error_loggingMetaMiddleware_originalMetas")
    IN  /\ DOMAIN result = DOMAIN before \cup {failure, original}
        /\ \A k \in DOMAIN before : result[k] = before[k]
        /\ result[failure].kind = "Error"
        /\ result[failure].fields[Key("message")]
             \in {GetterError.message, NullTypeError.message}
        /\ result[original].items = metas

(* C24: buildMeta never throws, and when the i-th metadata argument failed
   the record it returns holds the fields merged from the arguments before
   it, the normalized failure and the whole original argument list. *)
C24_BuildMetaNeverThrows ==
    call.op = "buildMeta"
    => /\ ~ret.threw
       /\ ret.failedAt > 0 => Contained(call.metas, ret.failedAt, ret.combined)

(* C25: a register call with a name that is registered throws the name
   error; one with a name that is not registered and an ID that is
   registered throws the ID error; and a register call that throws leaves
   master, core, both registration maps and the backends as they were. *)
C25_DuplicateRegistrationFails ==
    [][call'.op = "register"
       => /\ call'.name \in DOMAIN globalSlot.byName
               => ret'.threw = "NameRegistered"
          /\ (call'.name \notin DOMAIN globalSlot.byName
                /\ call'.id \in DOMAIN globalSlot.byId)
               => ret'.threw = "IdRegistered"
          /\ ret'.threw # "none"
               => /\ globalSlot'.master = globalSlot.master
                  /\ globalSlot'.core = globalSlot.core
                  /\ globalSlot'.byId = globalSlot.byId
                  /\ globalSlot'.byName = globalSlot.byName
                  /\ globalSlot'.backends = globalSlot.backends]_vars

(* C26: the first successful register call makes its name the master and
   builds the core from its masterConfig; a register call made when there
   is a master changes neither master nor core; and a record made through
   the backend of any registrant calls no callback but the one the core
   was built with. *)
C26_MasterAssignedOnce ==
    [][/\ (call'.op = "register" /\ globalSlot.master.isNull
             /\ ret'.threw = "none")
            => /\ globalSlot'.master = Master(call'.name)
               /\ globalSlot'.core = createCore(call'.masterConfig)
       /\ (call'.op = "register" /\ ~globalSlot.master.isNull)
            => /\ globalSlot'.master = globalSlot.master
               /\ globalSlot'.core = globalSlot.core
       /\ call'.op = "record"
            => /\ globalSlot' = globalSlot
               /\ \A i \in DOMAIN ret'.invoked :
                      ret'.invoked[i].callback = globalSlot.core.record]_vars

(* "app" registered after the master "lib", with a masterConfig of its own:
   master and core are those of "lib". *)
C26_Witness ==
    /\ call.op = "register"
    /\ call.name = <<"app">>
    /\ call.masterConfig.record = "cb2"
    /\ ret.threw = "none"
    /\ globalSlot.master = Master(<<"lib">>)
    /\ globalSlot.core = createCore([record |-> "cb1"])
    /\ DOMAIN globalSlot.byName = LegacyNames

(* C27: a record made through a backend goes to the callback of the core,
   if it has one, exactly once, with the type and the data given and with
   the name fullName + name when name starts with "/" and
   rootName + "/" + name otherwise; without a callback nothing is called. *)
C27_FinalRecordName ==
    [][call'.op = "record"
       => LET backend == globalSlot.backends[call'.fullName]
              finalName ==
                  IF call'.name[1] = Slash
                  THEN backend.fullName \o call'.name
                  ELSE backend.rootName \o <<Slash>> \o call'.name
          IN  /\ ret'.recordName = finalName
              /\ ret'.invoked =
                    IF globalSlot.core.record = "none" THEN <<>>
                    ELSE <<[callback |-> globalSlot.core.record,
                            type |-> call'.type, name |-> finalName,
                            data |-> call'.data]>>]_vars

(* The record "/hits" of the logger "app/db", "app" not being the master,
   reached the master's callback as "app/db/hits". *)
C27_Witness ==
    /\ call.op = "record"
    /\ call.fullName = <<"app", Slash, "db">>
    /\ call.name = <<Slash, "hits">>
    /\ globalSlot.master = Master(<<"lib">>)
    /\ ret.invoked = <<[callback |-> "cb1", type |-> "event",
                        name |-> <<"app", Slash, "db", Slash, "hits">>,
                        data |-> "data"]>>

(* C28: the first getLogger call of the client wrapper requires the engine
   and sets the delegate to the engine's getLogger or to the constructor of
   the no-op logger; from then on no step changes the delegate, and a
   getLogger call does not require the engine again, whatever requiring
   it would do by then. *)
C28_DelegateFixedOnce ==
    [][/\ (call'.op = "clientGetLogger" /\ clientImpl = NullImpl)
            => /\ ret'.required
               /\ clientImpl' \in {EngineGetLogger, getNoopLogger}
       /\ (call'.op = "clientGetLogger" /\ clientImpl # NullImpl)
            => ~ret'.required
       /\ clientImpl # NullImpl => clientImpl' = clientImpl]_vars

(* C29: in every state reached by log, setConfigurator, setRootConfigurator
   and resetConfig calls, the flag of a node of the presence tree is set
   exactly when the cache holds an implementation for the name that leads
   to the node, and every cached name has its node. *)
C29_PresentIffCached ==
    /\ \A path \in DOMAIN knownImplementations :
           knownImplementations[path]
             <=> (path # <<>>
                   /\ buildLoggerName(path) \in DOMAIN implementationMap)
    /\ \A n \in DOMAIN implementationMap :
           splitLoggerName(n) \in DOMAIN knownImplementations

(* "a/c" and "a/b" were cached and "a/b" was evicted by a setConfigurator
   call: the nodes of "a" and of "a/b" exist with the flag cleared, the
   node of "a/c" has it set. *)
C29_Witness ==
    /\ call.op = "setConfigurator"
    /\ DOMAIN implementationMap = {NameAC}
    /\ knownImplementations[<<<<"a">>, <<"c">>>>]
    /\ <<<<"a">>, <<"b">>>> \in DOMAIN knownImplementations
    /\ ~knownImplementations[<<<<"a">>, <<"b">>>>]
    /\ ~knownImplementations[<<<<"a">>>>]

RECURSIVE ThroughOne(_, _, _)
(* The pairs after one middleware, pair after pair: a quarantine pair stays
   as it is; a pair the middleware throws on becomes one quarantine pair;
   any other pair becomes what the middleware passes to next for it. *)
ThroughOne(pairs, i, xform) ==
    IF i > Len(pairs) THEN <<>>
    ELSE LET pair == pairs[i]
             run == CallMiddleware(xform, pair.loggerName, pair.entry)
         IN  (IF pair.quarantine THEN <<pair>>
              ELSE IF run.threw
              THEN <<[loggerName |-> EXTERNAL_ERROR_LOGGER_NAME,
                      entry |-> Quarantine(run.error, pair.entry, xform)[1].entry,
                      quarantine |-> TRUE]>>
              ELSE [k \in 1..Len(run.nextInvocations) |->
                       [loggerName |-> run.nextInvocations[k].loggerName,
                        entry |-> run.nextInvocations[k].entry,
                        quarantine |-> FALSE]])
             \o ThroughOne(pairs, i + 1, xform)

RECURSIVE ThroughAll(_, _, _)
(* The pairs after the whole list of middleware, stage by stage. *)
ThroughAll(pairs, middlewares, i) ==
    IF i > Len(middlewares) THEN pairs
    ELSE ThroughAll(ThroughOne(pairs, 1, middlewares[i]), middlewares, i + 1)

(* C30: the receiver calls of a log call are the pairs that leave the
   middleware list when a pair on which a middleware throws is replaced,
   in its place, by one quarantine pair that skips the middleware after
   it, while every other pair goes on through them: the order of the
   branches is kept, and no middleware is called with a quarantine pair. *)
C30_ThrowReplacesOneBranch ==
    (/\ call.op = "log"
     /\ ~ret.impl.noop
     /\ ListOf(ret.impl.config, "middleware", defaultLists) # <<>>)
    => LET middlewares == ListOf(ret.impl.config, "middleware", defaultLists)
           entry == FirstEntry(ret.impl, call.message)
           pairs == ThroughAll(<<[loggerName |-> call.name, entry |-> entry,
                                  quarantine |-> FALSE]>>, middlewares, 1)
       IN  /\ ret.threw = "none"
           /\ ret.delivered =
                [k \in 1..Len(pairs) |->
                    [receiver |-> ret.impl.config.receiver,
                     loggerName |-> pairs[k].loggerName,
                     message |-> pairs[k].entry.message,
                     metas |-> pairs[k].entry.metas]]
           /\ \A k \in DOMAIN ret.calls :
                  ret.calls[k].loggerName # EXTERNAL_ERROR_LOGGER_NAME

(* After a fan-out to "x" and "y" the second middleware threw on "x" only:
   the receiver got the quarantine entry and then the entry of "y", which
   alone went through the third middleware. *)
C30_Witness ==
    /\ call.op = "log"
    /\ Len(ret.calls) = 4
    /\ ret.calls[2].middleware = ThrowsFor(NameX)
    /\ ret.calls[2].loggerName = NameX
    /\ ret.calls[4].middleware = Pass
    /\ ret.calls[4].loggerName = NameY
    /\ Len(ret.delivered) = 2
    /\ ret.delivered[1].loggerName = EXTERNAL_ERROR_LOGGER_NAME
    /\ ret.delivered[2].loggerName = NameY
    /\ ret.delivered[2].message = call.message
(* ------------------------------------------------------------------ *)
(* Properties of the shared default lists, the receiver's payload and   *)
(* the separation of lock state from configuration state               *)
(* ------------------------------------------------------------------ *)
RECURSIVE AppendedBy(_, _, _)
(* The values the propertyAppender configurators at the applied keys push
   onto the decorations list, in application order. *)
AppendedBy(registry, applied, i) ==
    IF i > Len(applied) THEN <<>>
    ELSE LET c == registry[applied[i]]
         IN  (IF c.kind \in {"append", "enableAppend"}
              THEN <<PlainMeta(c.tag)>> ELSE <<>>)
             \o AppendedBy(registry, applied, i + 1)

(* No registered configurator was applied: at most the identity Root
   configurator the module starts with. *)
Untouched(registry, applied) ==
    \A i \in 1..Len(applied) :
        applied[i] = ROOT /\ registry[ROOT] = DEFAULT_ROOT_CONFIGURATOR

(* C31: a propertyAppender configurator applied while resolving one logger
   name pushes onto the decorations array of defaultConfig itself: the
   array grows by the appended values, and the configuration resolved for
   a name no configurator applies to carries exactly that array, appended
   values included. *)
C31_AppenderMutatesSharedDefault ==
    /\ [][(call'.op = "log" /\ ret'.built)
            => defaultLists'.decorations =
                 defaultLists.decorations
                   \o AppendedBy(configurators', ret'.applied, 1)]_vars
    /\ [](\A m \in Names :
            LET resolved == getConfig(configurators, m)
            IN  Untouched(configurators, resolved.applied)
                  => resolved.config.decorations = defaultLists.decorations)

C31_Witness ==
    /\ call.op = "log"
    /\ call.name = NameAB
    /\ ret.built
    /\ ret.applied = <<NameAB>>
    /\ AppendedBy(configurators, ret.applied, 1) # <<>>
    /\ Untouched(configurators, getConfig(configurators, NameAb).applied)
    /\ getConfig(configurators, NameAb).config.decorations
         = AppendedBy(configurators, ret.applied, 1)

(* A metadata value of an entry, a plain record, as the normalizer's
   argument: its fields under the keys of their names. *)
RawOf(meta) ==
    RawRecord([k \in {Key(f) : f \in DOMAIN meta} |-> meta[k[1]]])

(* The normalizer's arguments for a metadata list. *)
RawList(metas) == [j \in 1..Len(metas) |-> RawOf(metas[j])]

(* The payload properties of the object a receiver was called with. *)
PayloadProps(c) == {"meta", "metadata"} \cap DOMAIN c

(* C32: the object the receiver is called with for a final (loggerName,
   entry) pair carries, as meta or metadata, the record buildMeta returns
   for entry.metas. *)
C32_ReceiverGetsNormalizedMetadata ==
    (call.op = "log" /\ ret.threw = "none" /\ ~ret.impl.noop) =>
      LET invocations ==
              RunMiddleware(ret.impl, call.message, CallMetas,
                            defaultLists).invocations
      IN  /\ Len(ret.delivered) = Len(invocations)
          /\ \A i \in 1..Len(invocations) :
                LET c == ret.delivered[i]
                    metas == invocations[i].entry.metas
                    normalized ==
                        buildMeta(RawList(metas))
                IN  /\ c.loggerName = invocations[i].loggerName
                    /\ c.message = invocations[i].entry.message
                    /\ \E f \in PayloadProps(c) :
                          c[f] = normalized.combined

RECURSIVE LastWith(_, _, _)
(* The value of field f in the last of the first i records that has it. *)
LastWith(metas, f, i) ==
    IF f \in DOMAIN metas[i] THEN metas[i][f] ELSE LastWith(metas, f, i - 1)

(* The field names of the records of a list. *)
FieldsOf(metas) == UNION {DOMAIN metas[i] : i \in 1..Len(metas)}

(* C33: the entry handed to the first middleware has the configured
   decorations followed by the metadata arguments of the call, and the
   record buildMeta merges from that list holds, for every key of a
   metadata argument of the call, the value the call gave last, whatever
   the decorations hold under that key; keys only decorations have keep
   the value of the last decoration. *)
C33_DecorationsThenCallMetas ==
    (call.op = "log" /\ ~ret.impl.noop /\ ret.calls # <<>>) =>
      LET decorations == ListOf(ret.impl.config, "decorations", defaultLists)
          entry == ret.calls[1].entry
          merged == buildMeta(RawList(entry.metas))
      IN  /\ entry.metas = decorations \o call.metas
          /\ ~merged.threw
          /\ DOMAIN merged.combined = {Key(f) : f \in FieldsOf(entry.metas)}
          /\ \A f \in FieldsOf(call.metas) :
                merged.combined[Key(f)]
                  = Scalar(LastWith(call.metas, f, Len(call.metas)))
          /\ \A f \in FieldsOf(decorations) \ FieldsOf(call.metas) :
                merged.combined[Key(f)]
                  = Scalar(LastWith(decorations, f, Len(decorations)))

(* A call with {value: "own"} on a logger decorated with {value: t}: the
   key collides, the entry was delivered, and the merged record holds the
   call's value. *)
C33_Witness ==
    /\ call.op = "log"
    /\ ~ret.impl.noop
    /\ call.metas = <<PlainMeta("own")>>
    /\ Len(ret.delivered) = 1
    /\ Len(ret.delivered[1].metas) = 2
    /\ ret.delivered[1].metas[1] \in {PlainMeta(t) : t \in Tags}
    /\ buildMeta(RawList(ret.delivered[1].metas)).combined
         = (Key("value") :> Scalar("own"))

(* C34: a null among the metadata arguments is dropped silently.  When the
   other arguments merge without a failure, buildMeta returns for the
   whole list what it returns for the list without the nulls: no field for
   the null, no failure record, and the arguments before and after it
   merged as usual. *)
C34_NullIsDropped ==
    (call.op = "buildMeta" /\ RawNull \in Elements(call.metas)) =>
      LET others == SelectSeq(call.metas, LAMBDA v : v # RawNull)
          expected == buildMeta(others)
      IN  (~expected.threw /\ expected.failedAt = 0) =>
            /\ ~ret.threw
            /\ ret.failedAt = 0
            /\ ret.combined = expected.combined

(* C35: event, set and log on a logger obtained from a registration reach
   the record function of the shared core with the root name and the full
   name of that logger, log under the name logs/<level>: nothing is
   thrown, and the callback of the master, if it has one, is called once
   with the name the core builds from them. *)
C35_InterfaceReachesCore ==
    call.op = "interface" =>
      LET backend == globalSlot.backends[call.fullName]
          name == IF call.method = "log" THEN <<"logs", Slash, call.level>>
                  ELSE call.name
          finalName == backend.rootName \o <<Slash>> \o name
      IN  /\ ret.threw = "none"
          /\ ret.recordName = finalName
          /\ globalSlot.core.record # "none" =>
                /\ Len(ret.invoked) = 1
                /\ ret.invoked[1].callback = globalSlot.core.record
                /\ ret.invoked[1].name = finalName
                /\ ret.invoked[1].data = call.data

(* C36: when the shared record exists with a compatibility version other
   than this copy's, register throws the incompatibility error and the
   shared record stays as it was, whatever the ID, the name and the master
   configuration are. *)
C36_IncompatibleVersionFails ==
    [][(/\ call'.op = "register"
        /\ globalSlot.defined
        /\ globalSlot.compatibilityVersion # COMPATIBILITY_VERSION)
       => /\ ret'.threw = "Incompatible"
          /\ globalSlot' = globalSlot]_vars

(* register was called with the record of a copy of version 2 in place,
   in which that copy is registered as "other" and is the master: it
   threw, and the record is as that copy left it. *)
C36_Witness ==
    /\ call.op = "register"
    /\ ret.threw = "Incompatible"
    /\ globalSlot.compatibilityVersion = 2
    /\ globalSlot.master = Master(<<"other">>)
    /\ globalSlot.byId = ("idF" :> <<"other">>)
    /\ DOMAIN globalSlot.byName = {<<"other">>}

(* C37: every receiver call of a log call on N goes to the receiver of the
   configuration resolved for N, one call for each invocation
   applyMiddleware returned, whatever name the invocation carries; the log
   call applies only configurators registered at the Root and at prefixes
   of N, and builds and caches no implementation for another name. *)
C37_DeliveredToOwnReceiver ==
    [][(call'.op = "log" /\ ~ret'.impl.noop) =>
         LET N == call'.name
             invocations ==
                 RunMiddleware(ret'.impl, call'.message, call'.metas,
                               defaultLists').invocations
         IN  /\ Len(ret'.delivered) = Len(invocations)
             /\ \A i \in 1..Len(invocations) :
                   /\ ret'.delivered[i].receiver = ret'.impl.config.receiver
                   /\ ret'.delivered[i].loggerName = invocations[i].loggerName
             /\ \A i \in 1..Len(ret'.applied) :
                   ret'.applied[i] = ROOT \/ IsSegmentPrefix(ret'.applied[i], N)
             /\ DOMAIN implementationMap' \ DOMAIN implementationMap
                  \subseteq {N}
             /\ \A n \in DOMAIN implementationMap :
                   implementationMap'[n] = implementationMap[n]]_vars

(* A log call on "a" delivered an entry named "x" and a quarantine entry
   to the recorder of "a" while "x" and @loglow/external/errors were
   configured with the receiver spy and a middleware that drops. *)
C37_Witness ==
    /\ call.op = "log"
    /\ call.name = NameA
    /\ Len(ret.delivered) = 2
    /\ ret.delivered[1].loggerName = NameX
    /\ ret.delivered[2].loggerName = EXTERNAL_ERROR_LOGGER_NAME
    /\ \A i \in 1..2 : ret.delivered[i].receiver = "recorder"
    /\ \A n \in RoutingTargets :
          /\ n \in DOMAIN configurators
          /\ getConfig(configurators, n).config.receiver = "spy"
    /\ NameX \in DOMAIN implementationMap

(* C38: a key other than the outstanding one, null or the key of a
   released token, is accepted exactly when no token is outstanding.  So a
   mutation made through the handle of a released token takes effect when
   the system is unlocked, changes nothing while another token is
   outstanding, and from the step in which a lock() call succeeds no
   released key is accepted. *)
C38_ReleasedTokenFollowsLockState ==
    /\ [](\A k \in MintedKeys \cup {NullKey} :
            k # currentKey => (isKey(k) <=> currentKey = NullKey))
    /\ [][/\ (/\ call'.op \in Mutators
              /\ call'.caller \in handles
              /\ call'.caller.acquired
              /\ call'.caller.key # currentKey)
            => IF currentKey = NullKey THEN TakesEffect
               ELSE UNCHANGED configVars
          /\ (call'.op = "lock" /\ ret'.acquired)
            => \A k \in MintedKeys : ~(isKey(k))']_vars

(* The handle of the released key 1 stored a configurator while no token
   was outstanding. *)
C38_Witness ==
    /\ currentKey = NullKey
    /\ call.op = "setConfigurator"
    /\ call.caller = KeyHandle(1)
    /\ configurators[call.name] = wrapConfigurator(call.configurator)

(* C39: lock() and unlock(), whether they succeed or not, leave the
   configurator registry, the implementation cache and the presence tree
   as they are; setConfigurator, setRootConfigurator, resetConfig and log,
   whether they take effect or not, leave the outstanding token as it
   is. *)
C39_LockAndConfigurationDisjoint ==
    [][/\ call'.op \in {"lock", "unlock"} =>
            /\ configurators' = configurators
            /\ implementationMap' = implementationMap
            /\ knownImplementations' = knownImplementations
       /\ call'.op \in Mutators \cup {"log"} => currentKey' = currentKey]_vars

(* The holder of the second token released it while a configurator was
   registered and an implementation cached: both are still there. *)
C39_Witness ==
    /\ call.op = "unlock"
    /\ call.caller = KeyHandle(2)
    /\ currentKey = NullKey
    /\ NameAB \in DOMAIN configurators
    /\ NameAB \in DOMAIN implementationMap

====
